---- MODULE Spec2Model ----
(***************************************************************************)
(* Whimsy Screen (sketch.ino): the rendering and resource arbitration      *)
(* engine.  One control thread runs loop(); each pass calls                *)
(* server.handleClient(), then services pendingDrawBMP, then               *)
(* pendingStartGIF, then the GIF tick.  The display and the SD card share  *)
(* one SPI bus, each behind its own chip-select line.                      *)
(*                                                                         *)
(* ESP8266WebServer parses a multipart body inside one handleClient()      *)
(* call: it invokes the upload callback with UPLOAD_FILE_START, then       *)
(* UPLOAD_FILE_WRITE per buffer, then UPLOAD_FILE_END followed by the      *)
(* route handler, or UPLOAD_FILE_ABORTED and no route handler.  The        *)
(* callbacks are separate steps here (pc = "upload" between them), and no  *)
(* other handler or loop step runs until the upload has terminated.        *)
(***************************************************************************)
EXTENDS Integers, Sequences, FiniteSets, TLC

\* ------------------------------------------------------------------ bounds
MaxChunks == 2      \* UPLOAD_FILE_WRITE callbacks modelled per upload
MaxRows == 2        \* drawH: rows streamed by one bitmap draw
MaxFrames == 2      \* calls of gif.playFrame() in one run of SpecPace
MaxUploads == 1     \* upload requests served in one run, among all other requests
MaxUploadsFine == 1 \* upload requests served in one run when only uploads are served
MaxUploadsTwo == 2  \* upload requests served in one run of SpecTwo

\* ------------------------------------------------------- program constants
MAX_UPLOAD_BMP_BYTES == 450000
MAX_UPLOAD_GIF_BYTES == 1300000
MIN_GIF_FRAME_DELAY_MS == 20
BM_MAGIC == 19778            \* 0x4D42, 'BM'
MIN_DIB == 40
tftWidth == 320              \* tft.width() and tft.height() after setRotation(1)
tftHeight == 240

BMP_OK == 0
BMP_OPEN_FAIL == 1
BMP_NOT_BM == 2
BMP_DIB_TOO_SMALL == 3
BMP_BAD_PLANES == 4
BMP_UNSUPPORTED_BPP == 5
BMP_UNSUPPORTED_COMP == 6
BMP_BAD_DIMS == 7
BMP_SEEK_FAIL == 8
BMP_SHORT_READ == 9

BMP_PATH == "bmp"
GIF_PATH == "gif"
Assets == {BMP_PATH, GIF_PATH}

MaxUploadBytes(a) == IF a = BMP_PATH THEN MAX_UPLOAD_BMP_BYTES ELSE MAX_UPLOAD_GIF_BYTES

\* uploadErrorMsg values
MsgNone == ""
MsgSdBegin == "SD.begin failed"
MsgOpenWrite == "SD open for write failed"
MsgTooLarge(a) == IF a = BMP_PATH THEN "Upload too large (>450000)" ELSE "GIF too large (>1300000)"
MsgWriteFailed == "SD write failed"
MsgNoHandle == "No file handle"
MsgAborted == "Upload aborted"

\* header-validation exits of drawBMPFromSD_Safe
HeaderErrors == {BMP_NOT_BM, BMP_DIB_TOO_SMALL, BMP_BAD_PLANES, BMP_UNSUPPORTED_BPP,
                 BMP_UNSUPPORTED_COMP, BMP_BAD_DIMS}

\* up.currentSize of one UPLOAD_FILE_WRITE callback.  The handlers put no bound
\* on it.  ChunkSizes lets an upload end exactly at its ceiling or above it;
\* FineChunkSizes also below, and one byte above.
ChunkSizes(a) == {MaxUploadBytes(a)}
FineChunkSizes(a) == {1, MaxUploadBytes(a) - 1, MaxUploadBytes(a)}

\* bytes a short uploadFile.write() stores of a chunk of n bytes
ShortWrites(n) == {n - 1}

\* A file on the card: len bytes stored; good: cut from a well-formed asset;
\* cut: bytes of the asset are missing (a short write, or the upload stopped).
NoFile == [len |-> -1, good |-> FALSE, cut |-> FALSE]

VARIABLES
  pc,               \* position of the control thread
  cardOK,           \* the SD card answers (inserted and working)
  file,             \* card contents: asset path -> NoFile or [len, good]
  tftSel, sdSel,    \* chip-select lines: TRUE = selected (pin LOW)
  sdOK,
  firstBmpReceived, firstGifReceived,
  pendingDrawBMP, pendingStartGIF,
  lastUploadBytes,
  uploadError, uploadErrorMsg,
  lastBmpResult,
  gifPlaying, gifLoop,
  gifSess,          \* the AnimatedGIF object holds an open session (gif.open succeeded, no gif.close since)
  gifHandle,        \* the File* the decoder keeps in GIFFile.fHandle: "null", "open" or "freed"
  heapBad,          \* GIFCloseFile has been run on a pointer it had already deleted
  bytes,            \* the static byte counters of the two upload handlers
  uploadFile,       \* "closed" or the path the write handle is open on
  up,               \* server.upload(): the multipart part being received
  uploads,          \* upload requests served so far (bounded by the specification)
  resp,             \* status sent by server.send() in this pass, 0 = none
  req,              \* the request dispatched in this pass, and the state it found
  bmp,              \* the activation of drawBMPFromSD_Safe
  pass,             \* the current pass of loop(): what has run since handleClient()
  millis,           \* the value millis() returns, a uint32_t as <<high, low>> 16-bit halves
  gifNextFrameMs,   \* uint32_t, same representation
  gifLastDelayMs,   \* int
  tl,               \* the tick just taken, against a clock that does not wrap
  bmpFile,          \* the bitmap file a detailed draw decodes: header fields and length
  dr,               \* the locals of that call of drawBMPFromSD_Safe, and what it has done
  gd                \* one call of GIFDraw: the row it is given, its locals, the writes it issued

vars == <<pc, cardOK, file, tftSel, sdSel, sdOK, firstBmpReceived, firstGifReceived,
          pendingDrawBMP, pendingStartGIF, lastUploadBytes, uploadError, uploadErrorMsg,
          lastBmpResult, gifPlaying, gifLoop, gifSess, gifHandle, heapBad, bytes, uploadFile, up, uploads, resp, req, bmp, pass,
          millis, gifNextFrameMs, gifLastDelayMs, tl, bmpFile, dr, gd>>

busVars == <<tftSel, sdSel>>
gifVars == <<gifPlaying, gifLoop, gifSess, gifHandle, heapBad>>
sessVars == <<gifPlaying, gifSess, gifHandle, heapBad>>
uploadVars == <<lastUploadBytes, uploadError, uploadErrorMsg, bytes, uploadFile, up, uploads>>
flagVars == <<pendingDrawBMP, pendingStartGIF>>
recvVars == <<firstBmpReceived, firstGifReceived>>
\* Spec and SpecFine do not model the clock: whether a frame is due is any
\* boolean there, and the clock variables keep their boot values.  SpecPace
\* models the clock and the arithmetic of the tick.
paceVars == <<millis, gifNextFrameMs, gifLastDelayMs, tl>>
\* Spec and SpecFine take the outcome of a bitmap's header and the number of
\* its rows as given; SpecBmp decodes the header fields and maps the rows.
hdrVars == <<bmpFile, dr>>
\* Only SpecGif follows GIFDraw through its clipping and its scan of the row.
auxVars == <<paceVars, hdrVars, gd>>

\* target, good: the part being sent; total: up.totalSize; chunks: WRITE callbacks
\* so far; ioFail: a storage operation of this upload has failed
NoUpload == [target |-> "none", good |-> FALSE, total |-> 0, chunks |-> 0, ioFail |-> FALSE]
\* row, drawH: the row loop; stopped: the call has executed its "stop GIF" lines;
\* ret: the call has just returned to loop(); banner: loop() has painted the
\* error banner for this attempt (tftBannerError)
NoBmp == [row |-> 0, drawH |-> 0, stopped |-> FALSE, ret |-> FALSE, banner |-> FALSE]

\* upl: the asset whose upload ended without failure in this pass's
\* handleClient(), or "none"; steps: the steps of loop() taken after
\* handleClient() in this pass, in order: "draw" (pendingDrawBMP serviced by a
\* call of drawBMPFromSD_Safe), "start" (pendingStartGIF serviced), "frame"
\* (gif.playFrame called).  Cleared when loop() returns.
NoPass == [upl |-> "none", steps |-> <<>>]
Step(t) == [pass EXCEPT !.steps = Append(@, t)]

\* did: what the last step was ("frame": playFrame ran and its frame counts as
\* rendered, "skip": tick before the frame was due, "restart", "stop", "wait":
\* time passed); elapsed: true milliseconds since gifNextFrameMs was last
\* assigned; sched: the delay that assignment added to the clock; frames:
\* frames rendered in this session; waited, owed: elapsed and sched when the
\* last frame was rendered; n: calls of playFrame in this run; ok: what
\* playFrame returned in the last step (1 when it was not called).
NoTick == [did |-> "none", elapsed |-> 0, sched |-> 0, frames |-> 0, waited |-> 0, owed |-> 0, n |-> 0, ok |-> 1]
Zero32 == <<0, 0>>

\* A bitmap file: the header fields as read16/read32 return them, and its
\* length in bytes.
NoBmpFile == [sig |-> 0, dib |-> 0, w |-> 0, h |-> 0, planes |-> 0, depth |-> 0,
              comp |-> 0, off |-> 0, len |-> 0]
\* stage: where the call is ("idle": not called); open: the File is open;
\* hdrRead: header bytes read; result: the value returned, -1 before the
\* return; flip .. drawH: the locals of the same names; row: the loop counter;
\* pos, need, got: the last seek and read; pushed: rows written to the display;
\* y, w: the address window of the last row written; was: gifPlaying, the
\* session and the decoder's handle as the call found them.  SpecWide keeps
\* the uint32_t locals as <<high, low>> halves: rowSize32, srcRow32, pos32; ub:
\* what the build made of -bmpH when it does not fit an int32_t ("no": it fits).
NoDecode == [stage |-> "idle", open |-> FALSE, hdrRead |-> 0, result |-> -1,
             was |-> <<FALSE, FALSE, "null">>,
             rowSize32 |-> <<0, 0>>, srcRow32 |-> <<0, 0>>, pos32 |-> <<0, 0>>, ub |-> "no",
             flip |-> TRUE, bmpH |-> 0, bpp |-> 0, rowSize |-> 0, drawW |-> 0, drawH |-> 0,
             row |-> 0, pos |-> 0, need |-> 0, got |-> 0, pushed |-> 0, y |-> -1, w |-> 0]

\* stage: where the call is ("idle": not called); iX, y, iWidth, hasT: the
\* fields pDraw->iX, pDraw->iY + pDraw->y, pDraw->iWidth, ucHasTransparency;
\* row: which of pPixels equal ucTransparent; x0, w, clipLeft, i: the locals of
\* the same names; writes: the setAddrWindow/writePixels pairs issued, in
\* order; idx: the highest index of line[] the call has stored to.
NoDraw == [stage |-> "idle", iX |-> 0, y |-> 0, iWidth |-> 0, hasT |-> FALSE,
           row |-> [lead |-> FALSE, cuts |-> {}], x0 |-> 0, w |-> 0, clipLeft |-> 0,
           i |-> 0, writes |-> <<>>, idx |-> -1]

\* SD.exists(path)
Exists(a) == cardOK /\ file[a] # NoFile

\* the request handleClient() dispatches: its route, whether the animation was
\* playing and whether the animation file was reachable when it arrived
NoReq == [name |-> "none", playing |-> FALSE, gifThere |-> FALSE]
Req(n) == [name |-> n, playing |-> gifPlaying, gifThere |-> sdOK /\ cardOK /\ file[GIF_PATH] # NoFile]

\* SD.remove(path) guarded by SD.exists(path)
RemoveIfExists(f, a) == IF cardOK /\ f[a] # NoFile THEN [f EXCEPT ![a] = NoFile] ELSE f

\* ------------------------------------------------------------------- boot
\* State at the end of setup(): both chip selects released, sdOK = SD.begin().
\* The card may already hold assets of an earlier power cycle.
InitFiles == {NoFile, [len |-> 2, good |-> TRUE, cut |-> FALSE]}

Init ==
  /\ pc = "client"
  /\ cardOK \in BOOLEAN
  /\ file \in [Assets -> InitFiles]
  /\ tftSel = FALSE /\ sdSel = FALSE
  /\ sdOK = cardOK
  /\ firstBmpReceived = FALSE /\ firstGifReceived = FALSE
  /\ pendingDrawBMP = FALSE /\ pendingStartGIF = FALSE
  /\ lastUploadBytes = 0
  /\ uploadError = FALSE /\ uploadErrorMsg = MsgNone
  /\ lastBmpResult = BMP_OK
  /\ gifPlaying = FALSE /\ gifLoop = TRUE /\ gifSess = FALSE
  /\ gifHandle = "null" /\ heapBad = FALSE
  /\ bytes = [a \in Assets |-> 0]
  /\ uploadFile = "closed"
  /\ up = NoUpload
  /\ resp = 0
  /\ req = NoReq
  /\ bmp = NoBmp
  /\ pass = NoPass
  /\ uploads = 0
  /\ millis = Zero32 /\ gifNextFrameMs = Zero32 /\ gifLastDelayMs = 0 /\ tl = NoTick
  /\ bmpFile = NoBmpFile /\ dr = NoDecode
  /\ gd = NoDraw

\* ------------------------------------------------------------ GIF control
\* gif.close(): the decoder passes the pointer it holds to GIFCloseFile, which
\* closes and deletes the File behind it (and returns at once on a null
\* pointer); the decoder keeps the pointer, so a second close hands
\* GIFCloseFile a deleted object.
Closed(h) == IF h = "open" THEN "freed" ELSE h
ClosesFreed(h) == h = "freed"

gifClose ==
  /\ gifHandle' = Closed(gifHandle)
  /\ heapBad' = (heapBad \/ ClosesFreed(gifHandle))

stopGifPlayback ==
  /\ gifPlaying' = FALSE
  /\ gifSess' = FALSE
  /\ gifClose

\* startGifPlayback(loop); dec = gif.open() succeeds (the file opens and the
\* decoder accepts the container); sess = the decoder holds a session when
\* the function is entered.
StartOK(dec) == sdOK /\ Exists(GIF_PATH) /\ dec

\* mutant: the device is marked playing before the file is checked and opened
startGifPlayback_eager(loop, dec, sess, h, bad) ==
  /\ gifPlaying' = TRUE
  /\ gifLoop' = loop
  /\ gifSess' = (sdOK /\ Exists(GIF_PATH) /\ dec)
  /\ gifHandle' = h
  /\ heapBad' = bad

\* the pointer gif.open() leaves in the decoder: GIFOpenFile's File when the
\* file opened (also when the decoder then rejects the container), else null
Opened(dec) == IF dec \/ ~file[GIF_PATH].good \/ file[GIF_PATH].len = 0 THEN "open" ELSE "null"

\* h, bad: gifHandle and heapBad when the function is entered
startGifPlayback(loop, dec, sess, h, bad) ==
  IF ~sdOK \/ ~Exists(GIF_PATH)
  THEN /\ gifSess' = sess /\ gifHandle' = h /\ heapBad' = bad
       /\ UNCHANGED <<gifPlaying, gifLoop>>
  ELSE /\ gifLoop' = loop
       /\ gifSess' = dec
       /\ gifPlaying' = dec
       /\ gifHandle' = Opened(dec)                 \* gif.close(); gif.open(...)
       /\ heapBad' = (bad \/ ClosesFreed(h))

\* outcomes gif.open() can have on the card as it is
OpenOutcomes == {d \in BOOLEAN : d => (Exists(GIF_PATH) /\ file[GIF_PATH].good /\ file[GIF_PATH].len > 0)}

\* ---------------------------------------------------------------- uploads
\* beginUploadCommon(): TFT chip select forced inactive, playback stopped,
\* SD.begin() retried when storage was not up.  Its err/errMsg/bytes out
\* parameters are assigned in UploadStart.
\* mutant: playback is left running when an upload starts
beginUploadCommon_nostop ==
  /\ tftSel' = FALSE
  /\ UNCHANGED sessVars
  /\ sdOK' = (sdOK \/ cardOK)

beginUploadCommon ==
  /\ tftSel' = FALSE
  /\ IF gifPlaying THEN stopGifPlayback ELSE UNCHANGED sessVars
  /\ sdOK' = (sdOK \/ cardOK)

\* mutant: the handle SD.open returns is not tested
UploadStart_nocheck(a, good, createOK) ==
  LET beginErr == ~(sdOK \/ cardOK)
      opened == cardOK /\ createOK
  IN
  /\ pc = "client"
  /\ uploads' = uploads + 1
  /\ beginUploadCommon
  /\ bytes' = [bytes EXCEPT ![a] = 0]
  /\ lastUploadBytes' = 0
  /\ up' = [target |-> a, good |-> good, total |-> 0, chunks |-> 0, ioFail |-> beginErr \/ ~opened]
  /\ resp' = 0
  /\ req' = Req("upload")
  /\ IF beginErr
     THEN /\ uploadError' = TRUE
          /\ uploadErrorMsg' = MsgSdBegin
          /\ UNCHANGED <<file, uploadFile>>
     ELSE /\ file' = IF opened THEN [file EXCEPT ![a] = [len |-> 0, good |-> good, cut |-> FALSE]]
                     ELSE RemoveIfExists(file, a)
          /\ uploadFile' = IF opened THEN a ELSE "closed"
          /\ uploadError' = FALSE
          /\ uploadErrorMsg' = MsgNone
  /\ pc' = "upload"
  /\ UNCHANGED <<cardOK, sdSel, gifLoop, flagVars, recvVars, lastBmpResult, bmp>>
  /\ UNCHANGED <<pass, auxVars>>

\* handleUploadBmpStream / handleUploadGifStream, UPLOAD_FILE_START.
\* good: the body being sent is a well-formed asset; createOK: SD.open(path,
\* FILE_WRITE) would succeed on a working card.
UploadStart(a, good, createOK) ==
  LET beginErr == ~(sdOK \/ cardOK)
      opened == cardOK /\ createOK
  IN
  /\ pc = "client"
  /\ uploads' = uploads + 1
  /\ beginUploadCommon
  /\ bytes' = [bytes EXCEPT ![a] = 0]
  /\ lastUploadBytes' = 0
  /\ up' = [target |-> a, good |-> good, total |-> 0, chunks |-> 0, ioFail |-> beginErr \/ ~opened]
  /\ resp' = 0
  /\ req' = Req("upload")
  /\ IF beginErr
     THEN /\ uploadError' = TRUE
          /\ uploadErrorMsg' = MsgSdBegin
          /\ UNCHANGED <<file, uploadFile>>
     ELSE /\ file' = IF opened THEN [file EXCEPT ![a] = [len |-> 0, good |-> good, cut |-> FALSE]]
                     ELSE RemoveIfExists(file, a)
          /\ uploadFile' = IF opened THEN a ELSE "closed"
          /\ uploadError' = ~opened
          /\ uploadErrorMsg' = IF opened THEN MsgNone ELSE MsgOpenWrite
  /\ pc' = "upload"
  /\ UNCHANGED <<cardOK, sdSel, gifLoop, flagVars, recvVars, lastBmpResult, bmp>>
  /\ UNCHANGED <<pass, auxVars>>

\* mutant: the ceiling is exclusive
TooLarge_ge(b, a) == b >= MaxUploadBytes(a)

\* if (bytes > MAX_UPLOAD_xxx_BYTES)
TooLarge(b, a) == b > MaxUploadBytes(a)

\* uploadFile.write(up.buf, up.currentSize) returning w
WriteChunk(f, a, n, w) == [f EXCEPT ![a].len = @ + w, ![a].cut = @ \/ (w # n)]

\* mutant: a failed session still counts the bytes it is sent
UploadWrite_count(n, w) ==
  LET a == up.target
      b == bytes[a] + n     \* uint32_t: no wraparound, bytes[a] <= ceiling before the add
  IN
  /\ pc = "upload"
  /\ up.chunks < MaxChunks
  /\ n > 0
  /\ up' = [up EXCEPT !.total = @ + n, !.chunks = @ + 1,
                      !.ioFail = @ \/ (~uploadError /\ ~TooLarge(b, a) /\ uploadFile # "closed" /\ w # n)]
  /\ IF uploadError
     THEN /\ bytes' = [bytes EXCEPT ![a] = b]
          /\ lastUploadBytes' = b
          /\ UNCHANGED <<uploadError, uploadErrorMsg, uploadFile, file>>
     ELSE /\ bytes' = [bytes EXCEPT ![a] = b]
          /\ lastUploadBytes' = b
          /\ IF TooLarge(b, a)
             THEN /\ uploadError' = TRUE
                  /\ uploadErrorMsg' = MsgTooLarge(a)
                  /\ uploadFile' = "closed"
                  /\ file' = RemoveIfExists(file, a)
             ELSE IF uploadFile # "closed"
             THEN /\ file' = IF file[uploadFile] # NoFile
                             THEN WriteChunk(file, uploadFile, n, w) ELSE file
                  /\ uploadError' = (w # n)
                  /\ uploadErrorMsg' = IF w # n THEN MsgWriteFailed ELSE uploadErrorMsg
                  /\ UNCHANGED uploadFile
             ELSE /\ uploadError' = TRUE
                  /\ uploadErrorMsg' = MsgNoHandle
                  /\ UNCHANGED <<uploadFile, file>>
  /\ UNCHANGED <<pc, cardOK, busVars, sdOK, gifVars, flagVars, recvVars, uploads, lastBmpResult, resp, req, bmp>>
  /\ UNCHANGED <<pass, auxVars>>

\* UPLOAD_FILE_WRITE with up.currentSize = n; w = bytes the write stores.
UploadWrite(n, w) ==
  LET a == up.target
      b == bytes[a] + n     \* uint32_t: no wraparound, bytes[a] <= ceiling before the add
  IN
  /\ pc = "upload"
  /\ up.chunks < MaxChunks
  /\ n > 0
  /\ up' = [up EXCEPT !.total = @ + n, !.chunks = @ + 1,
                      !.ioFail = @ \/ (~uploadError /\ ~TooLarge(b, a) /\ uploadFile # "closed" /\ w # n)]
  /\ IF uploadError
     THEN UNCHANGED <<bytes, lastUploadBytes, uploadError, uploadErrorMsg, uploadFile, file>>
     ELSE /\ bytes' = [bytes EXCEPT ![a] = b]
          /\ lastUploadBytes' = b
          /\ IF TooLarge(b, a)
             THEN /\ uploadError' = TRUE
                  /\ uploadErrorMsg' = MsgTooLarge(a)
                  /\ uploadFile' = "closed"
                  /\ file' = RemoveIfExists(file, a)
             ELSE IF uploadFile # "closed"
             THEN /\ file' = IF file[uploadFile] # NoFile
                             THEN WriteChunk(file, uploadFile, n, w) ELSE file
                  /\ uploadError' = (w # n)
                  /\ uploadErrorMsg' = IF w # n THEN MsgWriteFailed ELSE uploadErrorMsg
                  /\ UNCHANGED uploadFile
             ELSE /\ uploadError' = TRUE
                  /\ uploadErrorMsg' = MsgNoHandle
                  /\ UNCHANGED <<uploadFile, file>>
  /\ UNCHANGED <<pc, cardOK, busVars, sdOK, gifVars, flagVars, recvVars, uploads, lastBmpResult, resp, req, bmp>>
  /\ UNCHANGED <<pass, auxVars>>

\* mutant: the end of a failed upload asks for a redraw of what is stored
UploadEnd_redraw ==
  /\ pc = "upload"
  /\ uploadFile' = "closed"
  /\ IF uploadError
     THEN pendingDrawBMP' = TRUE /\ UNCHANGED <<recvVars, sessVars, pendingStartGIF>>
     ELSE IF up.target = BMP_PATH
     THEN /\ firstBmpReceived' = TRUE
          /\ stopGifPlayback
          /\ pendingDrawBMP' = TRUE
          /\ UNCHANGED <<firstGifReceived, pendingStartGIF>>
     ELSE /\ firstGifReceived' = TRUE
          /\ pendingStartGIF' = TRUE
          /\ UNCHANGED <<firstBmpReceived, pendingDrawBMP, sessVars>>
  /\ pass' = [pass EXCEPT !.upl = IF uploadError THEN "none" ELSE up.target]
  /\ pc' = "up_done"
  /\ UNCHANGED <<cardOK, file, busVars, sdOK, gifLoop, uploads, lastUploadBytes, uploadError,
                 uploadErrorMsg, bytes, up, lastBmpResult, resp, req, bmp>>
  /\ UNCHANGED auxVars

\* mutant: the write handle is left open at the end of the upload
UploadEnd_keepopen ==
  /\ pc = "upload"
  /\ uploadFile' = uploadFile
  /\ IF uploadError
     THEN UNCHANGED <<recvVars, sessVars, flagVars>>
     ELSE IF up.target = BMP_PATH
     THEN /\ firstBmpReceived' = TRUE
          /\ stopGifPlayback
          /\ pendingDrawBMP' = TRUE
          /\ UNCHANGED <<firstGifReceived, pendingStartGIF>>
     ELSE /\ firstGifReceived' = TRUE
          /\ pendingStartGIF' = TRUE
          /\ UNCHANGED <<firstBmpReceived, pendingDrawBMP, sessVars>>
  /\ pass' = [pass EXCEPT !.upl = IF uploadError THEN "none" ELSE up.target]
  /\ pc' = "up_done"
  /\ UNCHANGED <<cardOK, file, busVars, sdOK, gifLoop, uploads, lastUploadBytes, uploadError,
                 uploadErrorMsg, bytes, up, lastBmpResult, resp, req, bmp>>
  /\ UNCHANGED auxVars

\* UPLOAD_FILE_END
UploadEnd ==
  /\ pc = "upload"
  /\ uploadFile' = "closed"
  /\ IF uploadError
     THEN UNCHANGED <<recvVars, sessVars, flagVars>>
     ELSE IF up.target = BMP_PATH
     THEN /\ firstBmpReceived' = TRUE
          /\ stopGifPlayback
          /\ pendingDrawBMP' = TRUE
          /\ UNCHANGED <<firstGifReceived, pendingStartGIF>>
     ELSE /\ firstGifReceived' = TRUE
          /\ pendingStartGIF' = TRUE
          /\ UNCHANGED <<firstBmpReceived, pendingDrawBMP, sessVars>>
  /\ pass' = [pass EXCEPT !.upl = IF uploadError THEN "none" ELSE up.target]
  /\ pc' = "up_done"
  /\ UNCHANGED <<cardOK, file, busVars, sdOK, gifLoop, uploads, lastUploadBytes, uploadError,
                 uploadErrorMsg, bytes, up, lastBmpResult, resp, req, bmp>>
  /\ UNCHANGED auxVars

\* UPLOAD_FILE_ABORTED: the server drops the request, no route handler runs
UploadAbort ==
  /\ pc = "upload"
  /\ uploadFile' = "closed"
  /\ uploadError' = TRUE
  /\ uploadErrorMsg' = MsgAborted
  /\ file' = IF uploadFile # "closed" /\ file[uploadFile] # NoFile
             THEN [file EXCEPT ![uploadFile].cut = TRUE] ELSE file   \* the rest of the body never arrives
  /\ pc' = "aborted"
  /\ UNCHANGED <<cardOK, busVars, sdOK, gifVars, flagVars, recvVars, uploads, lastUploadBytes,
                 bytes, up, lastBmpResult, resp, req, bmp>>
  /\ UNCHANGED <<pass, auxVars>>

\* handleUploadDone after UPLOAD_FILE_END
handleUploadDone ==
  /\ pc = "up_done"
  /\ resp' = IF uploadError THEN 500 ELSE 200
  /\ UNCHANGED <<up, req>>
  /\ pc' = "draw"
  /\ UNCHANGED <<cardOK, file, busVars, sdOK, gifVars, flagVars, recvVars, uploads, lastUploadBytes,
                 uploadError, uploadErrorMsg, bytes, uploadFile, lastBmpResult, bmp>>
  /\ UNCHANGED <<pass, auxVars>>

\* handleClient() returns after an aborted upload
AbortReturn ==
  /\ pc = "aborted"
  /\ UNCHANGED up
  /\ pc' = "draw"
  /\ UNCHANGED <<cardOK, file, busVars, sdOK, gifVars, flagVars, recvVars, uploads, lastUploadBytes,
                 uploadError, uploadErrorMsg, bytes, uploadFile, lastBmpResult, resp, req, bmp>>
  /\ UNCHANGED <<pass, auxVars>>

\* ------------------------------------------------------- request handlers
\* Each runs inside server.handleClient(), at most one per loop pass.

\* mutant: draw-now runs the decoder inside the request handler
handleDrawNow_inline ==
  /\ pc = "client"
  /\ req' = Req("draw-now")
  /\ stopGifPlayback
  /\ pendingDrawBMP' = FALSE
  /\ resp' = 200
  /\ tftSel' = TRUE
  /\ bmp' = [row |-> 0, drawH |-> 1, stopped |-> TRUE, ret |-> FALSE, banner |-> FALSE]
  /\ pass' = Step("draw")
  /\ pc' = "bmp_row"
  /\ UNCHANGED <<cardOK, file, sdSel, sdOK, gifLoop, pendingStartGIF, recvVars, uploadVars,
                 lastBmpResult>>
  /\ UNCHANGED auxVars

\* mutant: draw-now only sets the flag
handleDrawNow_nostop ==
  /\ pc = "client"
  /\ req' = Req("draw-now")
  /\ pendingDrawBMP' = TRUE
  /\ resp' = 200
  /\ pc' = "draw"
  /\ UNCHANGED <<cardOK, file, busVars, sdOK, gifVars, pendingStartGIF, recvVars, uploadVars,
                 lastBmpResult, bmp>>
  /\ UNCHANGED <<pass, auxVars>>

handleDrawNow ==
  /\ pc = "client"
  /\ req' = Req("draw-now")
  /\ stopGifPlayback
  /\ pendingDrawBMP' = TRUE
  /\ resp' = 200
  /\ pc' = "draw"
  /\ UNCHANGED <<cardOK, file, busVars, sdOK, gifLoop, pendingStartGIF, recvVars, uploadVars,
                 lastBmpResult, bmp>>
  /\ UNCHANGED <<pass, auxVars>>

\* stopGifPlayback(); showBootScreen(): display writes, each ended by endWrite
handleBootNow ==
  /\ pc = "client"
  /\ req' = Req("boot")
  /\ stopGifPlayback
  /\ resp' = 200
  /\ pc' = "draw"
  /\ UNCHANGED <<cardOK, file, busVars, sdOK, gifLoop, flagVars, recvVars, uploadVars,
                 lastBmpResult, bmp>>
  /\ UNCHANGED <<pass, auxVars>>

\* mutant: play only asks loop() to start the animation
handleGifPlay_flag(loop, dec) ==
  /\ pc = "client"
  /\ req' = Req("play")
  /\ pendingDrawBMP' = FALSE
  /\ pendingStartGIF' = TRUE
  /\ resp' = 200
  /\ pc' = "draw"
  /\ UNCHANGED <<cardOK, file, busVars, sdOK, gifVars, recvVars, uploadVars,
                 lastBmpResult, bmp>>
  /\ UNCHANGED <<pass, auxVars>>

\* mutant: a play request that fails asks for the still to be redrawn
handleGifPlay_fallback(loop, dec) ==
  /\ pc = "client"
  /\ req' = Req("play")
  /\ pendingDrawBMP' = ~StartOK(dec)
  /\ startGifPlayback(loop, dec, gifSess, gifHandle, heapBad)
  /\ resp' = IF StartOK(dec) THEN 200 ELSE 500
  /\ pc' = "draw"
  /\ UNCHANGED <<cardOK, file, busVars, sdOK, pendingStartGIF, recvVars, uploadVars,
                 lastBmpResult, bmp>>
  /\ UNCHANGED <<pass, auxVars>>

handleGifPlay(loop, dec) ==
  /\ pc = "client"
  /\ req' = Req("play")
  /\ pendingDrawBMP' = FALSE
  /\ startGifPlayback(loop, dec, gifSess, gifHandle, heapBad)
  /\ resp' = IF StartOK(dec) THEN 200 ELSE 500
  /\ pc' = "draw"
  /\ UNCHANGED <<cardOK, file, busVars, sdOK, pendingStartGIF, recvVars, uploadVars,
                 lastBmpResult, bmp>>
  /\ UNCHANGED <<pass, auxVars>>

handleGifStop ==
  /\ pc = "client"
  /\ req' = Req("stop")
  /\ stopGifPlayback
  /\ resp' = 200
  /\ pc' = "draw"
  /\ UNCHANGED <<cardOK, file, busVars, sdOK, gifLoop, flagVars, recvVars, uploadVars,
                 lastBmpResult, bmp>>
  /\ UNCHANGED <<pass, auxVars>>

\* mutant: the still is served while the animation plays
handleImageGet_nobusy(openOK) ==
  /\ pc = "client"
  /\ req' = Req("get")
  /\ resp' = IF ~sdOK \/ ~Exists(BMP_PATH) THEN 404
             ELSE IF ~openOK THEN 500
             ELSE 200
  /\ pc' = "draw"
  /\ UNCHANGED <<cardOK, file, busVars, sdOK, gifVars, flagVars, recvVars, uploadVars,
                 lastBmpResult, bmp>>
  /\ UNCHANGED <<pass, auxVars>>

\* openOK: SD.open(BMP_PATH, FILE_READ) succeeds
handleImageGet(openOK) ==
  /\ pc = "client"
  /\ req' = Req("get")
  /\ resp' = IF gifPlaying THEN 409
             ELSE IF ~sdOK \/ ~Exists(BMP_PATH) THEN 404
             ELSE IF ~openOK THEN 500
             ELSE 200
  /\ pc' = "draw"
  /\ UNCHANGED <<cardOK, file, busVars, sdOK, gifVars, flagVars, recvVars, uploadVars,
                 lastBmpResult, bmp>>
  /\ UNCHANGED <<pass, auxVars>>

handleStatus ==
  /\ pc = "client"
  /\ req' = Req("status")
  /\ resp' = 200
  /\ pc' = "draw"
  /\ UNCHANGED <<cardOK, file, busVars, sdOK, gifVars, flagVars, recvVars, uploadVars,
                 lastBmpResult, bmp>>
  /\ UNCHANGED <<pass, auxVars>>

\* POST /upload or /upload_gif whose body carries no file part: the route
\* handler runs without any upload callback before it.
UploadNoFile ==
  /\ pc = "client"
  /\ req' = Req("upload-nofile")
  /\ resp' = IF uploadError THEN 500 ELSE 200
  /\ pc' = "draw"
  /\ UNCHANGED <<cardOK, file, busVars, sdOK, gifVars, flagVars, recvVars, uploadVars,
                 lastBmpResult, bmp>>
  /\ UNCHANGED <<pass, auxVars>>

\* server.handleClient() with no request to serve
NoRequest ==
  /\ pc = "client"
  /\ pc' = "draw"
  /\ UNCHANGED <<cardOK, file, busVars, sdOK, gifVars, flagVars, recvVars, uploadVars,
                 lastBmpResult, resp, req, bmp>>
  /\ UNCHANGED <<pass, auxVars>>

\* ------------------------------------------------------------- bitmap draw
\* header-validation results drawBMPFromSD_Safe can reach on the file as it is
HeaderOutcomes ==
  LET f == file[BMP_PATH] IN
  {r \in HeaderErrors \cup {BMP_OK} :
     IF r = BMP_OK THEN f.good /\ f.len > 0 ELSE (~f.good \/ f.cut \/ f.len = 0)}

\* mutant: the decoder draws without stopping the animation
drawBMPFromSD_Safe_nostop(openOK, hdr, h) ==
  IF ~sdOK \/ ~openOK \/ hdr # BMP_OK
  THEN /\ lastBmpResult' = IF ~sdOK \/ ~openOK THEN BMP_OPEN_FAIL ELSE hdr
       /\ bmp' = [row |-> 0, drawH |-> 0, stopped |-> FALSE, ret |-> TRUE, banner |-> TRUE]
       /\ pc' = "startgif"
       /\ UNCHANGED <<sessVars, tftSel>>
  ELSE /\ tftSel' = TRUE
       /\ bmp' = [row |-> 0, drawH |-> h, stopped |-> FALSE, ret |-> FALSE, banner |-> FALSE]
       /\ pc' = "bmp_row"
       /\ UNCHANGED <<lastBmpResult, sessVars>>

\* drawBMPFromSD_Safe(BMP_PATH) up to tft.startWrite(), and loop()'s handling
\* of a result that is already known (lastBmpResult, banner).
\* openOK: SD.open succeeds; hdr: the result of header validation; h: drawH.
drawBMPFromSD_Safe(openOK, hdr, h) ==
  IF ~sdOK \/ ~openOK \/ hdr # BMP_OK
  THEN /\ lastBmpResult' = IF ~sdOK \/ ~openOK THEN BMP_OPEN_FAIL ELSE hdr
       /\ bmp' = [row |-> 0, drawH |-> 0, stopped |-> FALSE, ret |-> TRUE, banner |-> TRUE]
       /\ pc' = "startgif"
       /\ UNCHANGED <<sessVars, tftSel>>
  ELSE /\ gifPlaying' = FALSE         \* stop GIF if playing, then draw BMP
       /\ gifSess' = FALSE /\ gifClose            \* gif.close()
       /\ tftSel' = TRUE              \* fillScreen(); tft.startWrite()
       /\ bmp' = [row |-> 0, drawH |-> h, stopped |-> TRUE, ret |-> FALSE, banner |-> FALSE]
       /\ pc' = "bmp_row"
       /\ UNCHANGED lastBmpResult

\* mutant: a flag set by an upload of this pass is left for the next pass
LoopDraw_nextpass(openOK, hdr, h) ==
  /\ pc = "draw"
  /\ pc' = "startgif"
  /\ resp' = 0 /\ req' = NoReq /\ up' = NoUpload
  /\ UNCHANGED <<cardOK, file, busVars, sdOK, gifVars, flagVars, recvVars, lastUploadBytes,
                 uploadError, uploadErrorMsg, bytes, uploadFile, uploads, lastBmpResult, bmp, pass>>
  /\ UNCHANGED auxVars

\* mutant: a missing file is recorded without a banner
LoopDraw_silent(openOK, hdr, h) ==
  /\ pc = "draw"
  /\ IF ~pendingDrawBMP
     THEN /\ pc' = "startgif"
          /\ UNCHANGED <<pendingDrawBMP, lastBmpResult, sessVars, tftSel, bmp>>
     ELSE /\ pendingDrawBMP' = FALSE
          /\ IF ~sdOK \/ ~Exists(BMP_PATH)
             THEN /\ lastBmpResult' = BMP_OPEN_FAIL
                  /\ bmp' = NoBmp
                  /\ pc' = "returned"
                  /\ UNCHANGED <<sessVars, tftSel>>
             ELSE drawBMPFromSD_Safe(openOK, hdr, h)
  /\ resp' = 0 /\ req' = NoReq /\ up' = NoUpload
  /\ pass' = IF ~pendingDrawBMP THEN pass
             ELSE IF ~sdOK \/ ~Exists(BMP_PATH) THEN NoPass ELSE Step("draw")
  /\ UNCHANGED <<cardOK, file, sdSel, sdOK, gifLoop, pendingStartGIF, recvVars, lastUploadBytes,
                 uploadError, uploadErrorMsg, bytes, uploadFile, uploads>>
  /\ UNCHANGED auxVars

\* loop(): if (pendingDrawBMP) { ... }
LoopDraw(openOK, hdr, h) ==
  /\ pc = "draw"
  /\ IF ~pendingDrawBMP
     THEN /\ pc' = "startgif"
          /\ UNCHANGED <<pendingDrawBMP, lastBmpResult, sessVars, tftSel, bmp>>
     ELSE /\ pendingDrawBMP' = FALSE
          /\ IF ~sdOK \/ ~Exists(BMP_PATH)
             THEN /\ lastBmpResult' = BMP_OPEN_FAIL     \* tftBannerError(...); return
                  /\ bmp' = [NoBmp EXCEPT !.banner = TRUE]
                  /\ pc' = "returned"
                  /\ UNCHANGED <<sessVars, tftSel>>
             ELSE drawBMPFromSD_Safe(openOK, hdr, h)
  /\ resp' = 0 /\ req' = NoReq /\ up' = NoUpload    \* handleClient() has returned
  /\ pass' = IF ~pendingDrawBMP THEN pass
             ELSE IF ~sdOK \/ ~Exists(BMP_PATH) THEN NoPass ELSE Step("draw")
  /\ UNCHANGED <<cardOK, file, sdSel, sdOK, gifLoop, pendingStartGIF, recvVars, lastUploadBytes,
                 uploadError, uploadErrorMsg, bytes, uploadFile, uploads>>
  /\ UNCHANGED auxVars

\* loop() returns from inside the pending-draw block (lines 1830, 1837)
LoopReturn ==
  /\ pc = "returned"
  /\ bmp' = NoBmp
  /\ pc' = "client"
  /\ UNCHANGED <<cardOK, file, busVars, sdOK, gifVars, flagVars, recvVars, uploadVars,
                 lastBmpResult, resp, req>>
  /\ UNCHANGED <<pass, auxVars>>

\* row loop: bmp.seek(pos) and bmp.read(lineRaw, need) go to the card while the
\* display write transaction opened by tft.startWrite() is still open
BmpRowSeek ==
  /\ pc = "bmp_row"
  /\ sdSel' = TRUE
  /\ pc' = "bmp_io"
  /\ UNCHANGED <<cardOK, file, tftSel, sdOK, gifVars, flagVars, recvVars, uploadVars,
                 lastBmpResult, resp, req, bmp>>
  /\ UNCHANGED <<pass, auxVars>>

\* the seek and read of row bmp.row complete with result r; on BMP_OK the row
\* is converted and pushed with writePixels
BmpRowIO(r) ==
  /\ pc = "bmp_io"
  /\ r \in {BMP_OK, BMP_SEEK_FAIL, BMP_SHORT_READ}
  /\ r = BMP_OK => cardOK
  /\ sdSel' = FALSE
  /\ IF r = BMP_OK /\ bmp.row + 1 < bmp.drawH
     THEN /\ bmp' = [bmp EXCEPT !.row = @ + 1]
          /\ pc' = "bmp_row"
          /\ UNCHANGED <<tftSel, lastBmpResult>>
     ELSE /\ tftSel' = FALSE                             \* tft.endWrite()
          /\ lastBmpResult' = r
          /\ bmp' = [bmp EXCEPT !.row = IF r = BMP_OK THEN @ + 1 ELSE @, !.ret = TRUE,
                                   !.banner = (r # BMP_OK)]   \* if (r != BMP_OK) tftBannerError(msg)
          /\ pc' = "startgif"
  /\ UNCHANGED <<cardOK, file, sdOK, gifVars, flagVars, recvVars, uploadVars, resp, req>>
  /\ UNCHANGED <<pass, auxVars>>

\* loop(): if (pendingStartGIF) { ... }
LoopStartGif(dec) ==
  /\ pc = "startgif"
  /\ bmp' = NoBmp
  /\ IF pendingStartGIF
     THEN /\ pendingStartGIF' = FALSE
          /\ startGifPlayback(TRUE, dec, gifSess, gifHandle, heapBad)
          /\ pass' = Step("start")
     ELSE UNCHANGED <<pendingStartGIF, gifVars, pass>>
  /\ pc' = "tick"
  /\ UNCHANGED <<cardOK, file, busVars, sdOK, pendingDrawBMP, recvVars, uploadVars,
                 lastBmpResult, resp, req>>
  /\ UNCHANGED auxVars

\* ---------------------------------------------------------------- GIF tick
\* loop(): if (gifPlaying) { if frame due: gif.playFrame(...) }.  The decoder
\* pulls data through GIFReadFile and pushes lines through GIFDraw.
LoopTick(due) ==
  /\ pc = "tick"
  /\ IF gifPlaying /\ due
     THEN /\ tftSel' = FALSE          \* GIFReadFile: digitalWrite(TFT_CS, HIGH)
          /\ sdSel' = TRUE            \* pf->read()
          /\ pc' = "gif_read"
          /\ pass' = Step("frame")   \* gif.playFrame(false, &delayMs)
     ELSE /\ pc' = "client"
          /\ pass' = NoPass
          /\ UNCHANGED busVars
  /\ UNCHANGED <<cardOK, file, sdOK, gifVars, flagVars, recvVars, uploadVars,
                 lastBmpResult, resp, req, bmp>>
  /\ UNCHANGED auxVars

\* GIFReadFile returns; the decoder either has a line for GIFDraw or ends the frame
GifReadDone(line) ==
  /\ pc = "gif_read"
  /\ IF line
     THEN /\ sdSel' = FALSE           \* GIFDraw: digitalWrite(SD_CS, HIGH)
          /\ tftSel' = TRUE           \* tft.startWrite()
          /\ pc' = "gif_draw"
     ELSE /\ sdSel' = FALSE
          /\ UNCHANGED tftSel
          /\ pc' = "gif_ret"
  /\ UNCHANGED <<cardOK, file, sdOK, gifVars, flagVars, recvVars, uploadVars,
                 lastBmpResult, resp, req, bmp>>
  /\ UNCHANGED <<pass, auxVars>>

\* GIFDraw returns after tft.endWrite(); the decoder reads on or ends the frame
GIFDraw(more) ==
  /\ pc = "gif_draw"
  /\ IF more
     THEN /\ tftSel' = FALSE          \* endWrite(); GIFReadFile: TFT_CS HIGH
          /\ sdSel' = TRUE
          /\ pc' = "gif_read"
     ELSE /\ tftSel' = FALSE
          /\ UNCHANGED sdSel
          /\ pc' = "gif_ret"
  /\ UNCHANGED <<cardOK, file, sdOK, gifVars, flagVars, recvVars, uploadVars,
                 lastBmpResult, resp, req, bmp>>
  /\ UNCHANGED <<pass, auxVars>>

\* gif.playFrame() returns ok: 1 more frames, 0 no more frames, -1 error
PlayFrameResults == {1, 0, -1}

\* mutant: a restarted session plays its first frame in the same pass
PlayFrameReturn_again(ok, dec) ==
  /\ pc = "gif_ret"
  /\ ok \in PlayFrameResults
  /\ IF ok = 0
     THEN IF gifLoop
          THEN /\ startGifPlayback(TRUE, dec, FALSE, Closed(gifHandle),
                                   heapBad \/ ClosesFreed(gifHandle))
               /\ pc' = "tick"
               /\ UNCHANGED pass
          ELSE stopGifPlayback /\ UNCHANGED gifLoop /\ pc' = "client" /\ pass' = NoPass
     ELSE UNCHANGED gifVars /\ pc' = "client" /\ pass' = NoPass
  /\ UNCHANGED <<cardOK, file, busVars, sdOK, flagVars, recvVars, uploadVars,
                 lastBmpResult, resp, req, bmp>>
  /\ UNCHANGED auxVars

PlayFrameReturn(ok, dec) ==
  /\ pc = "gif_ret"
  /\ ok \in PlayFrameResults
  /\ IF ok = 0                        \* if (!ok)
     THEN IF gifLoop
          THEN startGifPlayback(TRUE, dec, FALSE, Closed(gifHandle),   \* gif.close(); startGifPlayback(true)
                                heapBad \/ ClosesFreed(gifHandle))
          ELSE stopGifPlayback /\ UNCHANGED gifLoop
     ELSE UNCHANGED gifVars
  /\ pass' = NoPass
  /\ pc' = "client"
  /\ UNCHANGED <<cardOK, file, busVars, sdOK, flagVars, recvVars, uploadVars,
                 lastBmpResult, resp, req, bmp>>
  /\ UNCHANGED auxVars

\* ------------------------------------------------------------ environment
\* the removable card is pulled or stops answering
CardFail ==
  /\ cardOK
  /\ cardOK' = FALSE
  /\ UNCHANGED <<pc, file, busVars, sdOK, gifVars, flagVars, recvVars, uploadVars,
                 lastBmpResult, resp, req, bmp>>
  /\ UNCHANGED <<pass, auxVars>>

\* a card is inserted while storage is not initialised (sdOK false); the next
\* upload's SD.begin() then brings it up
CardInsert ==
  /\ ~cardOK /\ ~sdOK
  /\ cardOK' = TRUE
  /\ UNCHANGED <<pc, file, busVars, sdOK, gifVars, flagVars, recvVars, uploadVars,
                 lastBmpResult, resp, req, bmp>>
  /\ UNCHANGED <<pass, auxVars>>

\* Running GIFCloseFile on a deleted File (available(), close(), delete on a
\* dangling pointer) is undefined: the sketch may carry on, or the heap is
\* corrupt and the device faults at some later point and reboots into setup().
\* The card keeps its files; a file that was being written stays incomplete.
Crash ==
  /\ heapBad
  /\ pc' = "client"
  /\ file' = IF uploadFile # "closed" /\ file[uploadFile] # NoFile
             THEN [file EXCEPT ![uploadFile].cut = TRUE] ELSE file
  /\ tftSel' = FALSE /\ sdSel' = FALSE
  /\ sdOK' = cardOK
  /\ firstBmpReceived' = FALSE /\ firstGifReceived' = FALSE
  /\ pendingDrawBMP' = FALSE /\ pendingStartGIF' = FALSE
  /\ lastUploadBytes' = 0
  /\ uploadError' = FALSE /\ uploadErrorMsg' = MsgNone
  /\ lastBmpResult' = BMP_OK
  /\ gifPlaying' = FALSE /\ gifLoop' = TRUE /\ gifSess' = FALSE
  /\ gifHandle' = "null" /\ heapBad' = FALSE
  /\ bytes' = [a \in Assets |-> 0]
  /\ uploadFile' = "closed"
  /\ up' = NoUpload /\ resp' = 0 /\ req' = NoReq /\ bmp' = NoBmp /\ pass' = NoPass
  /\ millis' = Zero32 /\ gifNextFrameMs' = Zero32 /\ gifLastDelayMs' = 0 /\ tl' = NoTick
  /\ dr' = NoDecode /\ UNCHANGED bmpFile
  /\ gd' = NoDraw
  /\ UNCHANGED <<cardOK, uploads>>

\* ---------------------------------------------------------- specification
\* what uploadFile.write() can return for n bytes: a dead card stores nothing
WriteResults(n) == IF cardOK THEN {n} \cup ShortWrites(n) ELSE {0}

\* the inputs the draw of this pass can depend on
DrawReads == pc = "draw" /\ pendingDrawBMP /\ sdOK /\ Exists(BMP_PATH)
DrawOpens == IF DrawReads THEN BOOLEAN ELSE {TRUE}
DrawHeaders == IF DrawReads THEN HeaderOutcomes ELSE {BMP_OK}
DrawHeights == IF DrawReads THEN 1..MaxRows ELSE {1}

Request ==
  \/ NoRequest
  \/ handleStatus
  \/ handleDrawNow
  \/ handleBootNow
  \/ handleGifStop
  \/ UploadNoFile
  \/ \E openOK \in BOOLEAN : handleImageGet(openOK)
  \/ \E loop \in BOOLEAN, dec \in OpenOutcomes : handleGifPlay(loop, dec)

Upload ==
  \/ \E a \in Assets, good \in BOOLEAN, createOK \in BOOLEAN :
       uploads < MaxUploads /\ UploadStart(a, good, createOK)
  \/ \E n \in ChunkSizes(up.target) : \E w \in WriteResults(n) : UploadWrite(n, w)
  \/ UploadEnd
  \/ UploadAbort
  \/ handleUploadDone
  \/ AbortReturn

Loop ==
  \/ \E openOK \in DrawOpens, hdr \in DrawHeaders, h \in DrawHeights :
       LoopDraw(openOK, hdr, h)
  \/ LoopReturn
  \/ BmpRowSeek
  \/ \E r \in {BMP_OK, BMP_SEEK_FAIL, BMP_SHORT_READ} : BmpRowIO(r)
  \/ \E dec \in OpenOutcomes : LoopStartGif(dec)
  \/ \E due \in BOOLEAN : LoopTick(due)
  \/ \E line \in BOOLEAN : GifReadDone(line)
  \/ \E more \in BOOLEAN : GIFDraw(more)
  \/ \E ok \in PlayFrameResults, dec \in OpenOutcomes : PlayFrameReturn(ok, dec)

Next == Request \/ Upload \/ Loop \/ CardFail \/ CardInsert \/ Crash

Spec == Init /\ [][Next]_vars

\* The same program serving uploads only, with chunk sizes that reach every
\* total around the ceiling.
UploadFine ==
  \/ \E a \in Assets, good \in BOOLEAN, createOK \in BOOLEAN :
       uploads < MaxUploadsFine /\ UploadStart(a, good, createOK)
  \/ \E n \in FineChunkSizes(up.target) : \E w \in WriteResults(n) : UploadWrite(n, w)
  \/ UploadEnd
  \/ UploadAbort
  \/ handleUploadDone
  \/ AbortReturn

NextFine == NoRequest \/ UploadFine \/ Loop \/ CardFail \/ CardInsert \/ Crash

SpecFine == Init /\ [][NextFine]_vars

\* The same program serving uploads only, one after another, with the chunk
\* sizes of Spec.
UploadTwo ==
  \/ \E a \in Assets, good \in BOOLEAN, createOK \in BOOLEAN :
       uploads < MaxUploadsTwo /\ UploadStart(a, good, createOK)
  \/ \E n \in ChunkSizes(up.target) : \E w \in WriteResults(n) : UploadWrite(n, w)
  \/ UploadEnd
  \/ UploadAbort
  \/ handleUploadDone
  \/ AbortReturn

NextTwo == NoRequest \/ UploadTwo \/ Loop \/ CardFail \/ CardInsert \/ Crash

SpecTwo == Init /\ [][NextTwo]_vars

\* ------------------------------------------------------------ frame pacing
\* uint32_t arithmetic on <<high, low>> halves of 16 bits each
W16 == 2^16
FromInt(n) == <<n \div W16, n % W16>>            \* (uint32_t)n for an int n >= 0
Add32(a, b) ==
  LET lo == a[2] + b[2]
      hi == a[1] + b[1] + (lo \div W16)
  IN  <<hi % W16, lo % W16>>
Sub32(a, b) ==
  LET lo == a[2] - b[2] + W16                    \* lo \div W16 = 0 when the low half borrows
      hi == a[1] - b[1] + W16 - 1 + (lo \div W16)
  IN  <<hi % W16, lo % W16>>
NonNegative32(a) == a[1] < W16 \div 2            \* (int32_t)a >= 0

\* mutant: the two clock values compared as plain unsigned numbers
FrameDue_unsigned(now, next) ==
  now[1] > next[1] \/ (now[1] = next[1] /\ now[2] >= next[2])

\* loop(): if ((int32_t)(now - gifNextFrameMs) >= 0)
FrameDue(now, next) == NonNegative32(Sub32(now, next))

\* loop(): if (delayMs < MIN_GIF_FRAME_DELAY_MS) delayMs = MIN_GIF_FRAME_DELAY_MS;
ClampDelay(delayMs) ==
  IF delayMs < MIN_GIF_FRAME_DELAY_MS THEN MIN_GIF_FRAME_DELAY_MS ELSE delayMs

\* clock values a session starts at: zero, a carry out of the low half, the
\* sign bit of the difference, and the wrap to zero
SessionStarts == {Zero32, <<0, W16 - 7>>, <<W16 \div 2 - 1, W16 - 11>>,
                  <<W16 - 1, W16 - 6>>, <<W16 - 1, W16 - 1>>}
\* delays the decoder reports (an int)
INT_MAX == 2147483647
FrameDelays == {-INT_MAX - 1, -1, 0, 19, 20, 21, 1000, INT_MAX}
\* how far the clock moves between two passes of loop()
Waits == {19, 20} \cup {tl.sched - tl.elapsed - 1, tl.sched - tl.elapsed}

\* A session has just been started by startGifPlayback() at some clock value:
\* gifNextFrameMs = millis(); gifLastDelayMs = 0.
InitPace ==
  /\ cardOK = TRUE /\ sdOK = TRUE
  /\ file = [a \in Assets |-> [len |-> 2, good |-> TRUE, cut |-> FALSE]]
  /\ sdSel = FALSE /\ tftSel = FALSE
  /\ gifPlaying = TRUE /\ gifSess = TRUE /\ gifHandle = "open" /\ heapBad = FALSE
  /\ gifLoop \in BOOLEAN
  /\ pendingDrawBMP = FALSE /\ pendingStartGIF = FALSE
  /\ firstBmpReceived = FALSE /\ firstGifReceived = FALSE
  /\ lastUploadBytes = 0
  /\ uploadError = FALSE /\ uploadErrorMsg = MsgNone
  /\ bytes = [a \in Assets |-> 0] /\ uploadFile = "closed"
  /\ lastBmpResult = BMP_OK
  /\ pc = "client" /\ up = NoUpload /\ resp = 0 /\ req = NoReq /\ bmp = NoBmp
  /\ pass = NoPass /\ uploads = 0
  /\ millis \in SessionStarts
  /\ gifNextFrameMs = millis
  /\ gifLastDelayMs = 0
  /\ tl = NoTick
  /\ bmpFile = NoBmpFile /\ dr = NoDecode
  /\ gd = NoDraw

progVars == <<cardOK, file, busVars, sdOK, flagVars, recvVars, uploadVars,
              lastBmpResult, pc, up, uploads, resp, req, bmp, pass, hdrVars, gd>>

\* time passes between two passes of loop()
ClockAdvance(dt) ==
  /\ gifPlaying
  /\ dt > 0
  /\ dt - MIN_GIF_FRAME_DELAY_MS <= tl.sched - tl.elapsed    \* a tick at most 20 ms late
  /\ tl.elapsed = 0 \/ tl.sched - tl.elapsed <= MIN_GIF_FRAME_DELAY_MS
  /\ dt <= INT_MAX - tl.elapsed
  /\ millis' = Add32(millis, FromInt(dt))
  /\ tl' = [tl EXCEPT !.did = "wait", !.elapsed = @ + dt, !.ok = 1]
  /\ UNCHANGED <<gifNextFrameMs, gifLastDelayMs, gifVars, progVars>>

\* loop(): the whole if (gifPlaying) block of one pass, with playFrame's
\* return value ok and the delay it reports
PaceTick(ok, delayMs) ==
  /\ gifPlaying
  /\ IF FrameDue(millis, gifNextFrameMs)
     THEN /\ tl.n < MaxFrames
          /\ IF ok = 0                                   \* if (!ok)
             THEN IF gifLoop
                  THEN /\ startGifPlayback(TRUE, TRUE, FALSE, Closed(gifHandle),
                                           heapBad \/ ClosesFreed(gifHandle))
                       /\ gifNextFrameMs' = millis        \* gifNextFrameMs = millis()
                       /\ gifLastDelayMs' = 0
                       /\ tl' = [NoTick EXCEPT !.did = "restart", !.n = tl.n + 1, !.ok = ok]
                  ELSE /\ stopGifPlayback /\ UNCHANGED gifLoop
                       /\ gifLastDelayMs' = delayMs
                       /\ tl' = [tl EXCEPT !.did = "stop", !.n = @ + 1, !.ok = ok]
                       /\ UNCHANGED gifNextFrameMs
             ELSE /\ gifLastDelayMs' = delayMs            \* gifLastDelayMs = delayMs
                  /\ gifNextFrameMs' = Add32(millis, FromInt(ClampDelay(delayMs)))
                  /\ tl' = [did |-> "frame", elapsed |-> 0, sched |-> ClampDelay(delayMs),
                            frames |-> tl.frames + 1, waited |-> tl.elapsed,
                            owed |-> tl.sched, n |-> tl.n + 1, ok |-> ok]
                  /\ UNCHANGED gifVars
     ELSE /\ tl' = [tl EXCEPT !.did = "skip", !.ok = 1]
          /\ UNCHANGED <<gifNextFrameMs, gifLastDelayMs, gifVars>>
  /\ UNCHANGED <<millis, progVars>>

Tick == \E ok \in PlayFrameResults, d \in FrameDelays : PaceTick(ok, d)

Wait == \E dt \in Waits : ClockAdvance(dt)

NextPace == Wait \/ Tick \/ Crash

SpecPace == InitPace /\ [][NextPace]_vars

\* ----------------------------------------------------------- bitmap decode
\* drawBMPFromSD_Safe step by step on a file with given header fields.  For
\* the headers drawn here no product reaches 2^31, so the uint32_t
\* arithmetic of the function is plain arithmetic.
BI_RGB == 0
BI_BITFIELDS == 3

\* uint32_t rowSize = ((uint32_t)bmpW * bpp + 3) & ~3
RowSize(w, bpp) == (w * bpp + 3) - ((w * bpp + 3) % 4)

\* mutant: depth is checked before planes
HeaderResult_bppfirst(f) ==
  IF ~(f.depth = 24 \/ f.depth = 32) THEN BMP_UNSUPPORTED_BPP
  ELSE IF f.planes # 1 THEN BMP_BAD_PLANES
  ELSE IF ~(f.comp = BI_RGB \/ (f.comp = BI_BITFIELDS /\ f.depth = 32)) THEN BMP_UNSUPPORTED_COMP
  ELSE IF f.w <= 0 \/ f.h = 0 THEN BMP_BAD_DIMS
  ELSE BMP_OK

\* the checks of lines 245-255, after all of BITMAPINFOHEADER has been read
HeaderResult(f) ==
  IF f.planes # 1 THEN BMP_BAD_PLANES
  ELSE IF ~(f.depth = 24 \/ f.depth = 32) THEN BMP_UNSUPPORTED_BPP
  ELSE IF ~(f.comp = BI_RGB \/ (f.comp = BI_BITFIELDS /\ f.depth = 32)) THEN BMP_UNSUPPORTED_COMP
  ELSE IF f.w <= 0 \/ f.h = 0 THEN BMP_BAD_DIMS
  ELSE BMP_OK

\* mutant: rows are read in file order whatever the sign of the height
SrcRow_noflip(flip, bmpH, row) == row

\* uint32_t srcRow = flip ? (uint32_t)(bmpH - 1 - row) : (uint32_t)row
SrcRow(flip, bmpH, row) == IF flip THEN bmpH - 1 - row ELSE row

\* mutant: the picture is not cropped to the display
Crop_none(n, limit) == n

\* (n > (int32_t)limit) ? limit : (int16_t)n
Crop(n, limit) == IF n > limit THEN limit ELSE n

Abs(n) == IF n < 0 THEN -n ELSE n

\* header fields of the files decoded
Signatures == {BM_MAGIC, BM_MAGIC + 1}
DibSizes == {MIN_DIB - 1, MIN_DIB}
Widths == {0, 1, 2, tftWidth - 1, tftWidth, tftWidth + 1}
Heights == {-(tftHeight + 1), -tftHeight, -2, 0, 1, 3, tftHeight, tftHeight + 1}
PlaneCounts == {1, 2}
Depths == {16, 24, 32}
Compressions == {BI_RGB, 1, BI_BITFIELDS}
PixelOffsets == {54, 70}
\* bytes missing at the end of the file: none, the last one, all pixel data
\* and one byte more
Missing(size, off) == {0, 1, size - off + 1}

\* bytes of a file that holds every stored row in full
FullSize(w, h, depth, off) == off + Abs(h) * RowSize(w, depth \div 8)

BmpFiles ==
  { [sig |-> sg, dib |-> d, w |-> w, h |-> h, planes |-> pl, depth |-> dp, comp |-> c,
     off |-> o, len |-> o] :
      sg \in Signatures, d \in DibSizes, w \in Widths, h \in Heights, pl \in PlaneCounts,
      dp \in Depths, c \in Compressions, o \in PixelOffsets }
\* a file with a header that passes, cut short by m bytes
WithData(f) ==
  IF f.w > 0 /\ f.depth \in {24, 32}
  THEN { [f EXCEPT !.len = FullSize(f.w, f.h, f.depth, f.off) - m] :
           m \in Missing(FullSize(f.w, f.h, f.depth, f.off), f.off) }
  ELSE {f}

\* animation states the call can find: none, one playing, one closed before
Animations == {<<FALSE, "null">>, <<TRUE, "open">>, <<FALSE, "freed">>}

InitBmp ==
  /\ cardOK = TRUE /\ sdOK = TRUE
  /\ file = [a \in Assets |-> [len |-> 2, good |-> TRUE, cut |-> FALSE]]
  /\ sdSel = FALSE /\ tftSel = FALSE
  /\ \E an \in Animations :
       gifPlaying = an[1] /\ gifSess = an[1] /\ gifHandle = an[2]
  /\ heapBad = FALSE /\ gifLoop = TRUE
  /\ pendingDrawBMP = FALSE /\ pendingStartGIF = FALSE
  /\ firstBmpReceived = FALSE /\ firstGifReceived = FALSE
  /\ lastUploadBytes = 0
  /\ uploadError = FALSE /\ uploadErrorMsg = MsgNone
  /\ bytes = [a \in Assets |-> 0] /\ uploadFile = "closed"
  /\ lastBmpResult = BMP_OK
  /\ pc = "draw" /\ up = NoUpload /\ resp = 0 /\ req = NoReq /\ bmp = NoBmp
  /\ pass = NoPass /\ uploads = 0
  /\ millis = Zero32 /\ gifNextFrameMs = Zero32 /\ gifLastDelayMs = 0 /\ tl = NoTick
  /\ \E f \in BmpFiles : bmpFile \in WithData(f)
  /\ dr = NoDecode
  /\ gd = NoDraw

restVars == <<cardOK, file, sdSel, sdOK, flagVars, recvVars, uploadVars, lastBmpResult,
              pc, up, uploads, resp, req, bmp, pass, paceVars, bmpFile, gd>>

\* return r: bmp.close(); return r
Return(d, r) == [d EXCEPT !.stage = "done", !.open = FALSE, !.result = r]

\* File bmp = SD.open(path, FILE_READ), on a working card
BmpOpen ==
  /\ dr.stage = "idle"
  /\ sdOK
  /\ dr' = [dr EXCEPT !.stage = "sig", !.open = TRUE,
                       !.was = <<gifPlaying, gifSess, gifHandle>>]
  /\ UNCHANGED <<tftSel, gifVars, restVars>>

\* mutant: the signature is not tested before the file header is read
ReadSignature_late ==
  /\ dr.stage = "sig"
  /\ dr' = [dr EXCEPT !.hdrRead = @ + 2, !.stage = "filehdr"]
  /\ UNCHANGED <<tftSel, gifVars, restVars>>

\* uint16_t sig = read16(bmp); if (sig != 0x4D42) ...
ReadSignature ==
  /\ dr.stage = "sig"
  /\ LET d == [dr EXCEPT !.hdrRead = @ + 2]
     IN  dr' = IF bmpFile.sig # BM_MAGIC THEN Return(d, BMP_NOT_BM)
               ELSE [d EXCEPT !.stage = "filehdr"]
  /\ UNCHANGED <<tftSel, gifVars, restVars>>

\* fileSize, reserved, pixelOffset, dib: four read32; if (dib < 40) ...
ReadFileHeader ==
  /\ dr.stage = "filehdr"
  /\ LET d == [dr EXCEPT !.hdrRead = @ + 16]
     IN  dr' = IF bmpFile.dib < MIN_DIB THEN Return(d, BMP_DIB_TOO_SMALL)
               ELSE [d EXCEPT !.stage = "info"]
  /\ UNCHANGED <<tftSel, gifVars, restVars>>

\* the rest of BITMAPINFOHEADER (36 bytes), the four checks, the locals of
\* lines 257-264, then "stop GIF", fillScreen and tft.startWrite()
ReadInfoHeader ==
  /\ dr.stage = "info"
  /\ LET d == [dr EXCEPT !.hdrRead = @ + 36]
         r == HeaderResult(bmpFile)
         bmpH == Abs(bmpFile.h)               \* if (bmpH < 0) { bmpH = -bmpH; flip = false; }
         bpp == bmpFile.depth \div 8
     IN  IF r # BMP_OK
         THEN dr' = Return(d, r) /\ UNCHANGED <<tftSel, gifVars>>
         ELSE /\ dr' = [d EXCEPT !.stage = "rows", !.flip = bmpFile.h > 0, !.bmpH = bmpH,
                                  !.bpp = bpp, !.rowSize = RowSize(bmpFile.w, bpp),
                                  !.drawW = Crop(bmpFile.w, tftWidth),
                                  !.drawH = Crop(bmpH, tftHeight), !.row = 0]
              /\ gifPlaying' = FALSE /\ gifSess' = FALSE /\ gifClose
              /\ tftSel' = TRUE
              /\ UNCHANGED gifLoop
  /\ UNCHANGED restVars

\* mutant: a short read skips the row and the loop goes on
DrawRow_skip ==
  /\ dr.stage = "rows"
  /\ dr.row < dr.drawH
  /\ LET srcRow == SrcRow(dr.flip, dr.bmpH, dr.row)
         pos == bmpFile.off + srcRow * dr.rowSize
         need == dr.drawW * dr.bpp
         left == bmpFile.len - pos
         got == IF left < need THEN left ELSE need
     IN  IF pos > bmpFile.len
         THEN /\ dr' = Return([dr EXCEPT !.pos = pos], BMP_SEEK_FAIL)
              /\ tftSel' = FALSE
         ELSE IF got # need
         THEN /\ dr' = [dr EXCEPT !.pos = pos, !.need = need, !.got = got, !.row = @ + 1,
                                  !.result = BMP_SHORT_READ]
              /\ UNCHANGED tftSel
         ELSE /\ dr' = [dr EXCEPT !.pos = pos, !.need = need, !.got = got,
                                  !.pushed = @ + 1, !.y = dr.row, !.w = dr.drawW,
                                  !.row = @ + 1]
              /\ UNCHANGED tftSel
  /\ UNCHANGED <<gifVars, restVars>>

\* one turn of the row loop, lines 279-312
DrawRow ==
  /\ dr.stage = "rows"
  /\ dr.row < dr.drawH
  /\ LET srcRow == SrcRow(dr.flip, dr.bmpH, dr.row)
         pos == bmpFile.off + srcRow * dr.rowSize
         need == dr.drawW * dr.bpp
         left == bmpFile.len - pos
         got == IF left < need THEN left ELSE need
     IN  IF pos > bmpFile.len                               \* if (!bmp.seek(pos))
         THEN /\ dr' = Return([dr EXCEPT !.pos = pos], BMP_SEEK_FAIL)
              /\ tftSel' = FALSE
         ELSE IF got # need                                 \* if (got != need)
         THEN /\ dr' = Return([dr EXCEPT !.pos = pos, !.need = need, !.got = got],
                              BMP_SHORT_READ)
              /\ tftSel' = FALSE
         ELSE /\ dr' = [dr EXCEPT !.pos = pos, !.need = need, !.got = got,
                                  !.pushed = @ + 1, !.y = dr.row, !.w = dr.drawW,
                                  !.row = @ + 1]
              /\ UNCHANGED tftSel
  /\ UNCHANGED <<gifVars, restVars>>

\* the loop has ended: tft.endWrite(); bmp.close(); return BMP_OK
DrawEnd ==
  /\ dr.stage = "rows"
  /\ dr.row >= dr.drawH
  /\ dr' = Return(dr, BMP_OK)
  /\ tftSel' = FALSE
  /\ UNCHANGED <<gifVars, restVars>>

NextBmp == BmpOpen \/ ReadSignature \/ ReadFileHeader \/ ReadInfoHeader \/ DrawRow
             \/ DrawEnd \/ Crash

SpecBmp == InitBmp /\ [][NextBmp]_vars

\* (uint32_t)n and (uint16_t)n for an int n of either sign
ToU32(n) == <<(n \div W16) % W16, n % W16>>
ToU16(n) == n % W16

\* ------------------------------------------- bitmap decode, 32-bit extremes
\* The same function on headers whose fields reach the ends of the 32-bit
\* range, with the uint32_t arithmetic of lines 261 and 283 done modulo 2^32
\* on <<high, low>> halves and the int16_t casts of lines 263-264 applied.

\* x * y for 16-bit x and y: the low 16 bits, and what is carried out of them
Mul16(x, y) == ((((x \div 256) * y) % 256) * 256 + (x % 256) * y) % W16
Carry16(x, y) ==
  ((x \div 256) * y) \div 256 + ((((x \div 256) * y) % 256) * 256 + (x % 256) * y) \div W16

\* uint32_t a * b
Mul32(a, b) ==
  <<(Carry16(a[2], b[2]) + Mul16(a[1], b[2]) + Mul16(a[2], b[1])) % W16, Mul16(a[2], b[2])>>

\* (int16_t)n
ToInt16(n) == IF n % W16 >= W16 \div 2 THEN (n % W16) - W16 ELSE n % W16

\* uint32_t rowSize = ((uint32_t)bmpW * bpp + 3) & ~3
RowSize32(w, bpp) ==
  LET r == Add32(Mul32(ToU32(w), <<0, bpp>>), <<0, 3>>)
  IN  <<r[1], r[2] - (r[2] % 4)>>

\* bmpH = -bmpH overflows for the most negative int32_t, which is undefined:
\* the negation wraps to the same value and the loop test sees it ("wrap"), or
\* the compiler, taking bmpH for positive from there on, enters the row loop
\* without its first test ("assume").
Negations(h) == IF h = -INT_MAX - 1 THEN {"wrap", "assume"} ELSE {"no"}

WideWidths == {1, tftWidth + 1, (W16 \div 4) * W16, INT_MAX}
WideHeights == {-INT_MAX - 1, -INT_MAX, -1, 0, 1, 2, INT_MAX}
WideLens == {58, 1982, 2622}

WideFiles ==
  { [sig |-> BM_MAGIC, dib |-> MIN_DIB, w |-> w, h |-> h, planes |-> 1, depth |-> dp,
     comp |-> BI_RGB, off |-> 54, len |-> n] :
      w \in WideWidths, h \in WideHeights, dp \in {24, 32}, n \in WideLens }

InitWide ==
  /\ cardOK = TRUE /\ sdOK = TRUE
  /\ file = [a \in Assets |-> [len |-> 2, good |-> TRUE, cut |-> FALSE]]
  /\ sdSel = FALSE /\ tftSel = FALSE
  /\ \E an \in Animations :
       gifPlaying = an[1] /\ gifSess = an[1] /\ gifHandle = an[2]
  /\ heapBad = FALSE /\ gifLoop = TRUE
  /\ pendingDrawBMP = FALSE /\ pendingStartGIF = FALSE
  /\ firstBmpReceived = FALSE /\ firstGifReceived = FALSE
  /\ lastUploadBytes = 0
  /\ uploadError = FALSE /\ uploadErrorMsg = MsgNone
  /\ bytes = [a \in Assets |-> 0] /\ uploadFile = "closed"
  /\ lastBmpResult = BMP_OK
  /\ pc = "draw" /\ up = NoUpload /\ resp = 0 /\ req = NoReq /\ bmp = NoBmp
  /\ pass = NoPass /\ uploads = 0
  /\ millis = Zero32 /\ gifNextFrameMs = Zero32 /\ gifLastDelayMs = 0 /\ tl = NoTick
  /\ bmpFile \in WideFiles
  /\ dr = NoDecode
  /\ gd = NoDraw

\* lines 229-277 with the casts and the 32-bit stride
WideInfoHeader(ub) ==
  /\ dr.stage = "info"
  /\ ub \in Negations(bmpFile.h)
  /\ LET d == [dr EXCEPT !.hdrRead = @ + 36]
         r == HeaderResult(bmpFile)
         bmpH == IF ub = "no" THEN Abs(bmpFile.h) ELSE bmpFile.h
         bpp == bmpFile.depth \div 8
     IN  IF r # BMP_OK
         THEN dr' = Return(d, r) /\ UNCHANGED <<tftSel, gifVars>>
         ELSE /\ dr' = [d EXCEPT !.stage = "rows", !.flip = bmpFile.h > 0, !.bmpH = bmpH,
                                  !.bpp = bpp, !.rowSize32 = RowSize32(bmpFile.w, bpp),
                                  !.drawW = IF bmpFile.w > tftWidth THEN tftWidth
                                            ELSE ToInt16(bmpFile.w),
                                  !.drawH = IF bmpH > tftHeight THEN tftHeight
                                            ELSE ToInt16(bmpH),
                                  !.row = 0, !.ub = ub]
              /\ gifPlaying' = FALSE /\ gifSess' = FALSE /\ gifClose
              /\ tftSel' = TRUE
              /\ UNCHANGED gifLoop
  /\ UNCHANGED restVars

\* the for statement's test, as the build compiled it
RowTest == dr.row < dr.drawH \/ (dr.ub = "assume" /\ dr.row = 0)

\* one turn of the row loop, lines 279-312, with pos computed modulo 2^32
WideRow ==
  /\ dr.stage = "rows"
  /\ RowTest
  /\ LET srcRow == IF dr.flip THEN ToU32(dr.bmpH - 1 - dr.row) ELSE ToU32(dr.row)
         pos == Add32(ToU32(bmpFile.off), Mul32(srcRow, dr.rowSize32))
         far == pos[1] >= W16 \div 2
         at == IF far THEN INT_MAX ELSE pos[1] * W16 + pos[2]
         need == dr.drawW * dr.bpp
         left == bmpFile.len - at
         got == IF left < need THEN left ELSE need
         d == [dr EXCEPT !.srcRow32 = srcRow, !.pos32 = pos]
     IN  IF far \/ at > bmpFile.len                         \* if (!bmp.seek(pos))
         THEN /\ dr' = Return(d, BMP_SEEK_FAIL)
              /\ tftSel' = FALSE
         ELSE IF got # need                                 \* if (got != need)
         THEN /\ dr' = Return([d EXCEPT !.need = need, !.got = got], BMP_SHORT_READ)
              /\ tftSel' = FALSE
         ELSE /\ dr' = [d EXCEPT !.need = need, !.got = got,
                                 !.pushed = @ + 1, !.y = dr.row, !.w = dr.drawW,
                                 !.row = @ + 1]
              /\ UNCHANGED tftSel
  /\ UNCHANGED <<gifVars, restVars>>

\* the loop has ended: tft.endWrite(); bmp.close(); return BMP_OK
WideEnd ==
  /\ dr.stage = "rows"
  /\ ~RowTest
  /\ dr' = Return(dr, BMP_OK)
  /\ tftSel' = FALSE
  /\ UNCHANGED <<gifVars, restVars>>

NextWide == BmpOpen \/ ReadSignature \/ ReadFileHeader
              \/ (\E ub \in {"no", "wrap", "assume"} : WideInfoHeader(ub))
              \/ WideRow \/ WideEnd \/ Crash

SpecWide == InitWide /\ [][NextWide]_vars

\* ----------------------------------------------------------------- GIFDraw
\* pDraw->iX, pDraw->iY + pDraw->y and pDraw->iWidth of the rows drawn
GdXs == {-5, -1, 0, 1, 318, 320}
GdYs == {-1, 0, 239, 240}
GdWidths == {0, 1, 3, 5, 320, 323}

\* A row of palette indices, as far as GIFDraw looks at it: index 0 equals the
\* transparent index iff lead, and the property flips at every index in cuts.
CutPoints(x, w) == {1, 2, 4, 0 - x, 1 - x, 319 - x, 320 - x, w - 1} \cap (1 .. w - 1)
Rows(x, w) == [lead : BOOLEAN, cuts : {c \in SUBSET CutPoints(x, w) : Cardinality(c) <= 2}]
Opaque == [lead |-> FALSE, cuts |-> {}]

\* s[i] == t
Transparent(row, i) == row.lead = (Cardinality({c \in row.cuts : c <= i}) % 2 = 0)

\* while (i < w && s[i] == t) i++;
SkipTransparent(row, i, w) ==
  CHOOSE j \in i .. w : /\ (j = w \/ ~Transparent(row, j))
                       /\ \A k \in i .. j - 1 : Transparent(row, k)

\* mutant: a run ends after one pixel
RunEnd_one(row, i, w) == i + 1

\* while (i < w && s[i] != t) i++;
RunEnd(row, i, w) ==
  CHOOSE j \in i .. w : /\ (j = w \/ Transparent(row, j))
                       /\ \A k \in i .. j - 1 : ~Transparent(row, k)

\* the decoder calls GIFDraw with one row of a frame
InitGif ==
  /\ cardOK = TRUE /\ sdOK = TRUE
  /\ file = [a \in Assets |-> [len |-> 2, good |-> TRUE, cut |-> FALSE]]
  /\ sdSel = FALSE /\ tftSel = FALSE
  /\ gifPlaying = TRUE /\ gifSess = TRUE /\ gifHandle = "open" /\ heapBad = FALSE
  /\ gifLoop = TRUE
  /\ pendingDrawBMP = FALSE /\ pendingStartGIF = FALSE
  /\ firstBmpReceived = FALSE /\ firstGifReceived = FALSE
  /\ lastUploadBytes = 0
  /\ uploadError = FALSE /\ uploadErrorMsg = MsgNone
  /\ bytes = [a \in Assets |-> 0] /\ uploadFile = "closed"
  /\ lastBmpResult = BMP_OK
  /\ pc = "gif_draw" /\ up = NoUpload /\ resp = 0 /\ req = NoReq /\ bmp = NoBmp
  /\ pass = NoPass /\ uploads = 0
  /\ millis = Zero32 /\ gifNextFrameMs = Zero32 /\ gifLastDelayMs = 0 /\ tl = NoTick
  /\ bmpFile = NoBmpFile /\ dr = NoDecode
  /\ \E x \in GdXs, y \in GdYs, w \in GdWidths, hasT \in BOOLEAN :
       \E row \in (IF hasT THEN Rows(x, w) ELSE {Opaque}) :
         gd = [NoDraw EXCEPT !.stage = "call", !.iX = x, !.y = y, !.iWidth = w,
                             !.hasT = hasT, !.row = row]

drawRest == <<pc, cardOK, file, sdSel, sdOK, gifVars, flagVars, recvVars, uploadVars,
              lastBmpResult, resp, req, bmp, pass, paceVars, hdrVars>>

\* lines 545-571: the early returns, the horizontal crop, tft.startWrite()
GIFDrawEnter ==
  LET x0 == gd.iX
      clipLeft == IF x0 < 0 THEN 0 - x0 ELSE 0
      x1 == IF x0 < 0 THEN 0 ELSE x0
      maxW == tftWidth - x1
      w == IF gd.iWidth - clipLeft > maxW THEN clipLeft + maxW ELSE gd.iWidth
  IN
  /\ gd.stage = "call"
  /\ IF gd.y < 0 \/ gd.y >= tftHeight \/ gd.iWidth <= 0 \/ maxW <= 0
     THEN gd' = [gd EXCEPT !.stage = "done"] /\ UNCHANGED tftSel
     ELSE /\ gd' = [gd EXCEPT !.stage = IF gd.hasT THEN "scan" ELSE "opaque",
                              !.x0 = x1, !.clipLeft = clipLeft, !.w = w, !.i = clipLeft]
          /\ tftSel' = TRUE
  /\ UNCHANGED drawRest

\* lines 577-593: one turn of the outer while, or its exit and tft.endWrite()
GIFDrawRun ==
  LET runStart == SkipTransparent(gd.row, gd.i, gd.w)
      end == RunEnd(gd.row, runStart, gd.w)
      runLen == end - runStart
  IN
  /\ gd.stage = "scan"
  /\ IF gd.i >= gd.w \/ runStart >= gd.w
     THEN /\ gd' = [gd EXCEPT !.stage = "done", !.i = IF gd.i >= gd.w THEN gd.i ELSE runStart]
          /\ tftSel' = FALSE
     ELSE /\ gd' = [gd EXCEPT !.i = end,
                              !.idx = IF runLen - 1 > @ THEN runLen - 1 ELSE @,
                              !.writes = Append(@, [x |-> ToU16(gd.x0 + runStart - gd.clipLeft),
                                                    y |-> ToU16(gd.y), len |-> ToU16(runLen),
                                                    n |-> ToU32(runLen), from |-> runStart])]
          /\ UNCHANGED tftSel
  /\ UNCHANGED drawRest

\* lines 596-603: the row without transparency.  A count that the casts turn
\* into a huge unsigned number makes writePixels read past line[]; the call
\* may return from that or the device faults.
GIFDrawOpaque(fault) ==
  LET n == gd.w - gd.clipLeft
  IN
  /\ gd.stage = "opaque"
  /\ fault => n < 0
  /\ gd' = [gd EXCEPT !.stage = IF fault THEN "fault" ELSE "done",
                      !.idx = IF n - 1 > @ THEN n - 1 ELSE @,
                      !.writes = Append(@, [x |-> ToU16(gd.x0), y |-> ToU16(gd.y),
                                            len |-> ToU16(n), n |-> ToU32(n),
                                            from |-> gd.clipLeft])]
  /\ tftSel' = FALSE
  /\ UNCHANGED drawRest

NextGif == GIFDrawEnter \/ GIFDrawRun \/ (\E fault \in BOOLEAN : GIFDrawOpaque(fault))

\* the call is not interrupted: loop() is the only thread
SpecGif == InitGif /\ [][NextGif]_vars /\ WF_vars(NextGif)

\* ------------------------------------------------------- playback to its end
\* POST /api/gif/play has just been answered 200 on a decodable animation, and
\* no further request arrives.
InitLive ==
  /\ cardOK = TRUE /\ sdOK = TRUE
  /\ \E f \in InitFiles :
       file = [a \in Assets |-> IF a = GIF_PATH THEN [len |-> 2, good |-> TRUE, cut |-> FALSE]
                                ELSE f]
  /\ sdSel = FALSE /\ tftSel = FALSE
  /\ gifPlaying = TRUE /\ gifSess = TRUE /\ gifHandle = "open" /\ heapBad = FALSE
  /\ gifLoop \in BOOLEAN
  /\ pendingDrawBMP = FALSE /\ pendingStartGIF = FALSE
  /\ firstBmpReceived \in BOOLEAN /\ firstGifReceived \in BOOLEAN
  /\ lastUploadBytes = 0
  /\ uploadError = FALSE /\ uploadErrorMsg = MsgNone
  /\ bytes = [a \in Assets |-> 0] /\ uploadFile = "closed"
  /\ lastBmpResult = BMP_OK
  /\ pc = "draw" /\ up = NoUpload /\ resp = 200
  /\ req = [name |-> "play", playing |-> FALSE, gifThere |-> TRUE]
  /\ bmp = NoBmp /\ pass = NoPass /\ uploads = 0
  /\ millis = Zero32 /\ gifNextFrameMs = Zero32 /\ gifLastDelayMs = 0 /\ tl = NoTick
  /\ bmpFile = NoBmpFile /\ dr = NoDecode
  /\ gd = NoDraw

\* gif.playFrame() on a decodable file: 1 after a frame that has a successor,
\* 0 after the last one; the file stays decodable when the session is reopened
FrameReturns == \E ok \in {1, 0} : PlayFrameReturn(ok, TRUE)

\* the passes of loop() with no request to dispatch
NextLive ==
  \/ NoRequest
  \/ LoopDraw(TRUE, BMP_OK, 1)
  \/ LoopStartGif(TRUE)
  \/ \E due \in BOOLEAN : LoopTick(due)
  \/ \E line \in BOOLEAN : GifReadDone(line)
  \/ \E more \in BOOLEAN : GIFDraw(more)
  \/ FrameReturns
  \/ Crash

\* loop() is called again and again; the clock moves on, so a frame that is
\* waited for becomes due; a frame has finitely many lines and the file
\* finitely many frames
SpecLive ==
  /\ InitLive /\ [][NextLive]_vars
  /\ WF_vars(NextLive)
  /\ SF_vars(LoopTick(TRUE))
  /\ SF_vars(GifReadDone(FALSE))
  /\ SF_vars(PlayFrameReturn(0, TRUE))

\* ================================================================= claims

\* C1: at most one of the two peripherals (display chip select, storage chip
\* select) is selected in any reachable state, the row loop of
\* drawBMPFromSD_Safe, GIFDraw, the GIF file callbacks and the upload handlers
\* included.
C1_BusExclusive == ~(tftSel /\ sdSel)

\* C2: when onEnd runs on a failed upload session, whatever the cause, the
\* target slot does not hold a readable truncated file afterwards.
C2_FailedUploadLeavesNoFile ==
  (pc = "up_done" /\ uploadError) => ~(Exists(up.target) /\ file[up.target].cut)

\* C3: after onAbort of an upload that had written at least one chunk, the write
\* handle is closed, the partial file is gone from the target slot and the
\* session is failed with the message "Upload aborted".
C3_AbortDiscardsPartial ==
  (pc = "aborted" /\ up.chunks > 0 /\ ~up.ioFail)
    => /\ uploadFile = "closed"
       /\ ~Exists(up.target)
       /\ uploadError
       /\ uploadErrorMsg = MsgAborted

\* C4: once the bytes delivered by the chunks of an upload exceed the ceiling of
\* its asset, the session is failed, the write handle is closed and the target
\* file is deleted, up to and including onEnd; no file is ever larger than its
\* ceiling.
C4_OversizeLeavesNoFile ==
  /\ (pc \in {"upload", "up_done"} /\ up.total > MaxUploadBytes(up.target))
       => (uploadError /\ uploadFile = "closed" /\ ~Exists(up.target))
  /\ \A a \in Assets : file[a].len <= MaxUploadBytes(a)

\* C5: the ceiling is inclusive.  An upload of exactly the ceiling whose
\* storage operations all succeed ends with failed = false, the file holding
\* exactly the uploaded bytes, the pending flag of its asset set and response
\* 200; an upload of ceiling + 1 bytes ends failed with the oversized-upload
\* message, response 500 and no file in the slot.
C5_Answered == pc = "draw" /\ req.name = "upload" /\ resp # 0 /\ ~up.ioFail

C5_CeilingInclusive ==
  LET t == up.target IN
  /\ (C5_Answered /\ up.total = MaxUploadBytes(t))
       => /\ ~uploadError
          /\ resp = 200
          /\ file[t] = [len |-> up.total, good |-> up.good, cut |-> FALSE]
          /\ IF t = BMP_PATH THEN pendingDrawBMP ELSE pendingStartGIF
  /\ (C5_Answered /\ up.total = MaxUploadBytes(t) + 1)
       => /\ uploadError
          /\ resp = 500
          /\ uploadErrorMsg = MsgTooLarge(t)
          /\ ~Exists(t)

C5_Witness ==
  C5_Answered /\ up.chunks = 2 /\ up.total = MaxUploadBytes(up.target) /\ resp = 200

\* C6: the animation is never playing while an upload is in flight (between
\* onStart and onEnd/onAbort).
C6_NoPlayingDuringUpload == pc = "upload" => (~gifPlaying /\ ~gifSess)

C6_Witness == pc = "upload" /\ req.playing

\* C7: gifPlaying is true if and only if the decoder holds an open animation
\* session, at every point between handler calls and scheduler steps.
C7_PlayingIffSession == gifPlaying <=> gifSess

\* C8: a draw-now request stops the animation inside the request handler: while
\* the pending draw flag is set no frame can be decoded and the animation is
\* stopped, and the bitmap decoder never runs with gifPlaying true.
C8_DrawNowStopsFirst ==
  /\ pendingDrawBMP => (pc \in {"draw", "up_done"} /\ ~gifPlaying /\ ~gifSess)
  /\ req.name = "draw-now" => (pendingDrawBMP /\ resp = 200)
  /\ pc \in {"bmp_row", "bmp_io"} => ~gifPlaying

C8_Witness == req.name = "draw-now" /\ req.playing /\ pendingDrawBMP

\* C9 as claimed: every invocation of drawBMPFromSD_Safe, whatever its result,
\* has terminated the animation itself when it returns (the stop is
\* unconditional, not only after the header has passed validation).
C9_DrawAlwaysStops == bmp.ret => (bmp.stopped /\ ~gifPlaying)

\* C9 as amended: no animation is playing when drawBMPFromSD_Safe returns; the
\* decoder itself stops the animation exactly on the paths that passed header
\* validation (BMP_OK, BMP_SEEK_FAIL, BMP_SHORT_READ), and on the open-failure
\* and header-error exits playback is already stopped by whoever set the flag.
C9_DrawLeavesNoAnimation ==
  bmp.ret => /\ ~gifPlaying /\ ~gifSess
             /\ bmp.stopped <=> lastBmpResult \in {BMP_OK, BMP_SEEK_FAIL, BMP_SHORT_READ}

C9_Witness == bmp.ret /\ ~bmp.stopped /\ lastBmpResult \in HeaderErrors

\* C10: a play request that finds the animation file absent or storage
\* unavailable is answered 500, opens no session and leaves a device that was
\* not playing not playing.
C10_StartOnMissingFile ==
  (req.name = "play" /\ ~req.gifThere)
    => /\ resp = 500
       /\ ~req.playing => (~gifPlaying /\ ~gifSess)

C10_Witness == req.name = "play" /\ ~req.gifThere /\ ~req.playing /\ resp = 500
\* C11: stopGifPlayback is idempotent and always safe: called when playback is
\* already stopped (here by a stop request) it changes no device state, the
\* playing flag, the pending flags, the asset files and the integrity of the
\* decoder's file handle included.
C11_StopIdempotent ==
  [][(pc = "client" /\ pc' = "draw" /\ req'.name = "stop" /\ ~gifPlaying)
       => UNCHANGED <<gifPlaying, pendingDrawBMP, pendingStartGIF, file, heapBad>>]_vars
\* C12 as claimed: an upload that completes during the handleClient() of one
\* pass of loop() is not rendered in that pass: neither the bitmap draw nor the
\* animation start it asks for happens before the next pass.
C12_NotBeforeNextPass ==
  pass.upl # "none" => (pc # "bmp_row" /\ ~(pass.steps = <<"start">> /\ gifSess))

\* C12 as amended: nothing is drawn and no session is opened while the upload
\* is still inside handleClient(); the bitmap draw or the animation start it
\* asks for runs after handleClient() has returned, in the pending-flag steps
\* of the same pass of loop().
C12_AfterDispatchSamePass ==
  /\ pc \in {"upload", "up_done", "aborted"}
       => (pass.steps = <<>> /\ bmp = NoBmp /\ ~tftSel /\ ~gifSess)
  /\ (pass.upl = BMP_PATH /\ pc \notin {"up_done", "draw", "client"})
       => (pass.steps # <<>> /\ pass.steps[1] = "draw")
  /\ (pass.upl = GIF_PATH /\ pc \notin {"up_done", "draw", "startgif", "client"})
       => (pass.steps # <<>> /\ pass.steps[1] = "start")

C12_Witness == pass.upl = BMP_PATH /\ pc = "bmp_row" /\ pass.steps = <<"draw">>
\* C13: every pass of loop() takes its steps in the fixed order request
\* dispatch, pending bitmap draw, pending animation start, animation tick.  No
\* bitmap draw and no frame render happens before handleClient() has returned,
\* and the two pending flags are never both set, so a draw can only precede a
\* start.
OrderedSteps ==
  {<<>>, <<"draw">>, <<"start">>, <<"frame">>, <<"draw", "start">>, <<"draw", "frame">>,
   <<"start", "frame">>, <<"draw", "start", "frame">>}

FrameCount == Cardinality({i \in DOMAIN pass.steps : pass.steps[i] = "frame"})

C14_OneFramePerPass ==
  /\ FrameCount <= 1
  /\ pc \in {"gif_read", "gif_draw", "gif_ret"} <=> FrameCount = 1
  /\ pc = "tick" => FrameCount = 0

C14_Witness == pc = "gif_draw" /\ FrameCount = 1 /\ pass.steps[1] = "start" /\ gifLoop


\* C15: frame pacing.  A tick that finds the session playing renders a frame
\* only when the clock is at or after gifNextFrameMs, however the 32-bit clock
\* has wrapped since, and is a no-op only before that; after a frame with
\* reported delay d, gifNextFrameMs is the tick's clock value plus max(d, 20)
\* modulo 2^32; two consecutive frames of a session are at least 20 ms apart.
C15_FramePacing ==
  /\ tl.did = "frame" =>
        /\ tl.waited >= tl.owed
        /\ tl.frames >= 2 => tl.waited >= MIN_GIF_FRAME_DELAY_MS
        /\ tl.sched >= MIN_GIF_FRAME_DELAY_MS
        /\ tl.sched = (IF gifLastDelayMs > MIN_GIF_FRAME_DELAY_MS
                       THEN gifLastDelayMs ELSE MIN_GIF_FRAME_DELAY_MS)
        /\ Sub32(gifNextFrameMs, millis) = FromInt(tl.sched)
  /\ tl.did = "skip" => tl.elapsed < tl.sched

\* the second frame of a session, rendered 20 ms after the first with the
\* clock wrapped to zero in between, reporting a negative delay
C15_Witness ==
  /\ tl.did = "frame" /\ tl.frames = 2 /\ tl.waited = MIN_GIF_FRAME_DELAY_MS
  /\ millis[1] = 0 /\ gifLastDelayMs < 0
  /\ gifNextFrameMs = <<0, 34>>

\* C16: when playFrame reports the sequence exhausted (0) or an error (-1):
\* with loop set the session is reopened and the device stays playing with
\* the first frame due at once; with loop clear the device is stopped and the
\* session closed; an error is never counted as a rendered frame.
C16_EndOrErrorEndsSession ==
  /\ tl.ok # 1 =>
        IF gifLoop
        THEN tl.did = "restart" /\ gifPlaying /\ gifSess /\ FrameDue(millis, gifNextFrameMs)
        ELSE tl.did = "stop" /\ ~gifPlaying /\ ~gifSess
  /\ tl.did = "frame" => tl.ok = 1

\* what the header rules and the display say, in their own terms
ValidHeader(f) ==
  /\ f.sig = BM_MAGIC /\ f.dib >= 40 /\ f.planes = 1 /\ f.depth \in {24, 32}
  /\ f.comp = BI_RGB \/ (f.comp = BI_BITFIELDS /\ f.depth = 32)
  /\ f.w > 0 /\ f.h # 0
Stride(f) == 4 * ((f.w * (f.depth \div 8) + 3) \div 4)
CompleteData(f) == f.len >= f.off + Abs(f.h) * Stride(f)
MinOf(a, b) == IF a <= b THEN a ELSE b
ShownW(f) == MinOf(f.w, tftWidth)
ShownH(f) == MinOf(Abs(f.h), tftHeight)

\* C17: a bitmap with a valid header and complete pixel data is drawn in
\* full: the call returns BMP_OK having read min(|height|, 240) rows of
\* min(width, 320) * bytesPerPixel bytes each and having pushed that many rows
\* of min(width, 320) pixels at y = 0, 1, ...; it returns no other result.
C17_ValidBitmapDraws ==
  (ValidHeader(bmpFile) /\ CompleteData(bmpFile)) =>
    /\ dr.stage = "done" =>
          /\ dr.result = BMP_OK /\ ~dr.open
          /\ dr.pushed = ShownH(bmpFile) /\ dr.row = ShownH(bmpFile)
    /\ dr.stage = "rows" => dr.pushed = dr.row /\ dr.row <= ShownH(bmpFile)
    /\ dr.pushed > 0 =>
          /\ dr.y = dr.pushed - 1 /\ dr.w = ShownW(bmpFile)
          /\ dr.need = ShownW(bmpFile) * (bmpFile.depth \div 8) /\ dr.got = dr.need

\* a picture larger than the display both ways, drawn cropped
C17_Witness ==
  /\ dr.stage = "done" /\ dr.result = BMP_OK
  /\ bmpFile.w = tftWidth + 1 /\ bmpFile.h = tftHeight + 1 /\ bmpFile.depth = 32
  /\ dr.pushed = tftHeight /\ dr.w = tftWidth /\ dr.need = 4 * tftWidth

\* C18: a file whose first two bytes are not BM makes the call return
\* BMP_NOT_BM after reading those two bytes only, with the file closed,
\* nothing pushed to the display and the animation as it was.
C18_NotBmStopsAtSignature ==
  (bmpFile.sig # BM_MAGIC /\ dr.stage \notin {"idle", "sig"}) =>
    /\ dr.stage = "done" /\ dr.result = BMP_NOT_BM
    /\ dr.hdrRead = 2 /\ ~dr.open
    /\ dr.pushed = 0 /\ ~tftSel
    /\ <<gifPlaying, gifSess, gifHandle>> = dr.was /\ ~heapBad

\* rejected at the signature while an animation is playing
C18_Witness ==
  /\ dr.stage = "done" /\ dr.result = BMP_NOT_BM /\ dr.hdrRead = 2
  /\ gifPlaying /\ gifHandle = "open"

\* the checks in the order the rules list them
HeaderChecks(f) ==
  << [bad |-> f.sig # BM_MAGIC, code |-> BMP_NOT_BM],
     [bad |-> f.dib < 40, code |-> BMP_DIB_TOO_SMALL],
     [bad |-> f.planes # 1, code |-> BMP_BAD_PLANES],
     [bad |-> f.depth \notin {24, 32}, code |-> BMP_UNSUPPORTED_BPP],
     [bad |-> f.comp # BI_RGB /\ ~(f.comp = BI_BITFIELDS /\ f.depth = 32),
      code |-> BMP_UNSUPPORTED_COMP],
     [bad |-> f.w <= 0 \/ f.h = 0, code |-> BMP_BAD_DIMS] >>
Defects(f) == {i \in DOMAIN HeaderChecks(f) : HeaderChecks(f)[i].bad}
FirstDefect(f) ==
  IF Defects(f) = {} THEN BMP_OK
  ELSE HeaderChecks(f)[CHOOSE i \in Defects(f) : \A j \in Defects(f) : i <= j].code

\* C19: a header with defects is rejected with the code of the first failing
\* check in the order signature, header size, planes, depth, compression,
\* dimensions; the file is then closed and no row has been pushed.
C19_FirstFailingCheck ==
  /\ (dr.stage = "done" /\ FirstDefect(bmpFile) # BMP_OK) =>
        /\ dr.result = FirstDefect(bmpFile)
        /\ ~dr.open /\ dr.pushed = 0 /\ ~tftSel
  /\ dr.stage = "rows" => FirstDefect(bmpFile) = BMP_OK
  /\ dr.result \in {BMP_NOT_BM, BMP_DIB_TOO_SMALL, BMP_BAD_PLANES, BMP_UNSUPPORTED_BPP,
                     BMP_UNSUPPORTED_COMP, BMP_BAD_DIMS} =>
        dr.result = FirstDefect(bmpFile)

\* planes, depth, compression and width all wrong: the planes code is returned
C19_Witness ==
  /\ dr.stage = "done" /\ dr.result = BMP_BAD_PLANES
  /\ bmpFile.planes = 2 /\ bmpFile.depth = 16 /\ bmpFile.comp = 1 /\ bmpFile.w = 0
  /\ dr.hdrRead = 54

\* the display row of the last seek: the row that failed, or the last one pushed
LastRow == IF dr.result \in {BMP_SEEK_FAIL, BMP_SHORT_READ} THEN dr.row ELSE dr.row - 1
StoredRow(f, r) == IF f.h > 0 THEN f.h - 1 - r ELSE r

\* C20: display row r is read from stored row height-1-r of a bottom-up
\* bitmap and from stored row r of a top-down one, at offset pixelDataOffset +
\* storedRow * stride with the stride a multiple of 4; rows are pushed in
\* increasing display order.
C20_RowMapping ==
  /\ (dr.pushed > 0 \/ dr.result \in {BMP_SEEK_FAIL, BMP_SHORT_READ}) =>
        dr.pos = bmpFile.off + StoredRow(bmpFile, LastRow) * Stride(bmpFile)
  /\ dr.pushed > 0 => dr.y = dr.pushed - 1
  /\ dr.stage = "rows" => dr.row = dr.pushed

\* the top display row of a bottom-up picture of three padded rows comes from
\* the last stored row
C20_Witness ==
  /\ dr.stage = "rows" /\ dr.pushed = 1 /\ dr.y = 0
  /\ bmpFile.h = 3 /\ bmpFile.w = 2 /\ bmpFile.depth = 24
  /\ dr.pos = bmpFile.off + 16

\* where the rules put display row r in the file, and whether the file holds it
RowOffset(f, r) == f.off + StoredRow(f, r) * Stride(f)
RowFits(f, r) == RowOffset(f, r) + ShownW(f) * (f.depth \div 8) <= f.len
FirstBadRow(f) ==
  CHOOSE r \in 0..(ShownH(f) - 1) : ~RowFits(f, r) /\ \A q \in 0..(r - 1) : RowFits(f, q)

\* C21: when the seek or the read of display row r fails, the call returns
\* BMP_SEEK_FAIL or BMP_SHORT_READ at once: the r rows before it are the only
\* ones pushed, the write transaction is ended and the file closed.
C21_RowFailureStops ==
  dr.result \in {BMP_SEEK_FAIL, BMP_SHORT_READ} =>
    /\ dr.stage = "done" /\ ~dr.open /\ ~tftSel
    /\ dr.row = FirstBadRow(bmpFile) /\ dr.pushed = dr.row
    /\ dr.pushed > 0 => dr.y = dr.pushed - 1
    /\ dr.result = BMP_SEEK_FAIL <=> RowOffset(bmpFile, dr.row) > bmpFile.len
    /\ dr.result = BMP_SHORT_READ => dr.got < dr.need

\* the second row of a top-down picture lacks its last byte
C21_Witness ==
  /\ dr.result = BMP_SHORT_READ /\ dr.stage = "done"
  /\ dr.pushed = 1 /\ dr.row = 1 /\ dr.got = dr.need - 1
  /\ bmpFile.h = -2

\* C22: GET of the still answers 409 whenever the animation is playing,
\* whether or not the file exists; when not playing, 404 if storage is not up
\* or the file is absent; 200 only when not playing with the file present.
\* The handler changes nothing on the card or in the program's flags.
C22_GetRoute ==
  [][(pc = "client" /\ pc' = "draw" /\ req'.name = "get") =>
       /\ gifPlaying => resp' = 409
       /\ (~gifPlaying /\ (~sdOK \/ ~cardOK \/ file[BMP_PATH] = NoFile)) => resp' = 404
       /\ resp' = 200 => (~gifPlaying /\ sdOK /\ cardOK /\ file[BMP_PATH] # NoFile)
       /\ resp' \in {409, 404, 500, 200}
       /\ UNCHANGED <<file, sdOK, gifVars, flagVars, recvVars, lastBmpResult>>]_vars

\* refused while playing although no still is stored
C22_Witness ==
  /\ pc = "draw" /\ req.name = "get" /\ req.playing /\ resp = 409
  /\ file[BMP_PATH] = NoFile

C24_OnEndEffects ==
  [][(pc = "upload" /\ pc' = "up_done") =>
       IF uploadError
       THEN UNCHANGED <<pendingDrawBMP, pendingStartGIF, firstBmpReceived, firstGifReceived,
                        gifPlaying>>
       ELSE IF up.target = BMP_PATH
       THEN /\ firstBmpReceived' /\ pendingDrawBMP'
            /\ UNCHANGED <<pendingStartGIF, firstGifReceived>>
       ELSE /\ firstGifReceived' /\ pendingStartGIF'
            /\ UNCHANGED <<pendingDrawBMP, firstBmpReceived>>]_vars

\* an animation upload has just ended without failure
C24_Witness ==
  /\ pc = "up_done" /\ ~uploadError /\ up.target = GIF_PATH /\ up.chunks > 0
  /\ firstGifReceived /\ pendingStartGIF /\ ~pendingDrawBMP /\ ~firstBmpReceived

\* C25: an upload route answers 200 exactly when an upload session was started
\* and ended without failure during that same request, and 500 otherwise; a
\* request that delivers no file part inherits nothing from an earlier upload.
C25_AnswerMatchesThisRequest ==
  [][/\ (pc = "up_done" /\ pc' = "draw") => (resp' = 200 <=> ~uploadError)
     /\ (pc = "client" /\ pc' = "draw" /\ req'.name = "upload-nofile") => resp' = 500]_vars

\* the slot holds a file that was uploaded in full
HoldsComplete(a) == file[a] # NoFile /\ ~file[a].cut

\* C26: whenever the status route can run, hasBmp (hasGif) is true only if the
\* still (animation) slot holds a completely uploaded file.
C26_PresenceAgreesWithStorage ==
  pc = "client" =>
    /\ firstBmpReceived => HoldsComplete(BMP_PATH)
    /\ firstGifReceived => HoldsComplete(GIF_PATH)

\* the still whose upload ended without failure in this pass is well-formed
\* and its draw has returned without a storage failure
GoodStillDrawn ==
  /\ pc = "startgif" /\ bmp.ret /\ pass.upl = BMP_PATH
  /\ file[BMP_PATH] # NoFile /\ file[BMP_PATH].good /\ ~file[BMP_PATH].cut
  /\ file[BMP_PATH].len > 0
  /\ lastBmpResult \notin {BMP_OPEN_FAIL, BMP_SEEK_FAIL, BMP_SHORT_READ}

\* the recovery half of C27 alone
RecoveryDrawsStill == GoodStillDrawn => (lastBmpResult = BMP_OK /\ ~gifPlaying /\ ~gifSess)

\* C27: no error is fatal.  No pass of loop() runs into a fault, and the draw
\* that follows a complete well-formed still upload leaves lastBmpResult =
\* BMP_OK with no animation playing.
C27_NoErrorFatal ==
  /\ ~heapBad
  /\ RecoveryDrawsStill

\* what holds once the pending draw has been taken up
DrawServiced ==
  /\ (pc \in {"bmp_row", "bmp_io", "returned"} \/ bmp.ret) => ~pendingDrawBMP
  /\ pc = "returned" =>
        /\ bmp.banner /\ lastBmpResult = BMP_OPEN_FAIL
        /\ bmp.row = 0 /\ ~bmp.stopped /\ ~tftSel
  /\ bmp.ret =>
        /\ bmp.banner <=> lastBmpResult # BMP_OK
        /\ lastBmpResult = BMP_OK => (bmp.stopped /\ bmp.row = bmp.drawH /\ bmp.row > 0)
        /\ lastBmpResult \in {BMP_SEEK_FAIL, BMP_SHORT_READ} =>
              (bmp.stopped /\ bmp.row < bmp.drawH)
        /\ lastBmpResult \in HeaderErrors \cup {BMP_OPEN_FAIL} =>
              (~bmp.stopped /\ bmp.row = 0)
  /\ bmp.banner => (pc = "returned" \/ bmp.ret)

\* C28: servicing the pending draw clears the flag first and makes one
\* attempt whose result is in lastBmpResult when it returns; with storage down
\* or the slot absent the result is BMP_OPEN_FAIL with a banner and no row
\* pushed; every result other than BMP_OK shows a banner.
C28_DrawServicing ==
  [][/\ DrawServiced'
     /\ (pc = "draw" /\ pendingDrawBMP /\ pc' \in {"returned", "bmp_row", "startgif"}) =>
           /\ ~pendingDrawBMP'
           /\ Cardinality({i \in DOMAIN pass'.steps : pass'.steps[i] = "draw"}) <= 1
           /\ (~sdOK \/ ~cardOK \/ file[BMP_PATH] = NoFile) =>
                 /\ lastBmpResult' = BMP_OPEN_FAIL /\ bmp'.banner
                 /\ pc' = "returned" /\ UNCHANGED <<busVars, file, gifVars>>]_vars

\* a draw is asked for after an oversized upload removed the still
C28_Witness ==
  /\ pc = "returned" /\ bmp.banner /\ lastBmpResult = BMP_OPEN_FAIL
  /\ sdOK /\ cardOK /\ file[BMP_PATH] = NoFile
  /\ uploadErrorMsg = MsgTooLarge(BMP_PATH)

\* C29: once the session has failed, a chunk writes nothing, leaves the byte
\* counter, lastUploadBytes and the failure message alone, and the failure
\* flag stays set until the next onStart (or a reboot).
C29_FailureIsSticky ==
  [][/\ (pc = "upload" /\ uploadError /\ up'.chunks = up.chunks + 1) =>
           UNCHANGED <<file, bytes, lastUploadBytes, uploadError, uploadErrorMsg, uploadFile>>
     /\ (uploadError /\ ~uploadError') =>
           \/ pc = "client" /\ pc' = "upload" /\ uploads' = uploads + 1
           \/ heapBad /\ ~heapBad' /\ pc' = "client"]_vars

\* the first chunk was written short and a second one was then ignored
C29_Witness ==
  /\ pc = "upload" /\ uploadError /\ up.chunks = 2
  /\ uploadErrorMsg = MsgWriteFailed
  /\ lastUploadBytes > 0 /\ up.total > lastUploadBytes
  /\ file[up.target] # NoFile /\ file[up.target].len < lastUploadBytes

\* the messages only UPLOAD_FILE_START stores
StartFailures == {MsgSdBegin, MsgOpenWrite}

\* the session of the request being served failed at its start
FailedAtStart == pc \in {"upload", "up_done"} /\ uploadErrorMsg \in StartFailures

\* C30: when storage cannot be brought up or the file cannot be created at
\* onStart the session is failed with "SD.begin failed" or "SD open for write
\* failed"; nothing of that upload reaches the card, onEnd sets no pending
\* flag, and the request is answered 500 with that message.
C30_StartFailure ==
  [][/\ (pc = "client" /\ pc' = "upload") =>
           /\ uploadError' <=> uploadFile' = "closed"
           /\ uploadError' <=> uploadErrorMsg' \in StartFailures
           /\ ~uploadError' => uploadErrorMsg' = MsgNone
           /\ ~(sdOK \/ cardOK) => (uploadErrorMsg' = MsgSdBegin /\ file' = file)
           /\ ((sdOK \/ cardOK) /\ ~cardOK) => (uploadErrorMsg' = MsgOpenWrite /\ file' = file)
     /\ FailedAtStart =>
           /\ uploadError /\ uploadFile = "closed" /\ lastUploadBytes = 0 /\ bytes[up.target] = 0
           /\ file' = file
           /\ pc' \in {"upload", "up_done"} => UNCHANGED <<uploadError, uploadErrorMsg>>
           /\ (pc = "upload" /\ pc' = "up_done") => UNCHANGED <<flagVars, recvVars, sessVars>>
           /\ (pc = "up_done" /\ pc' = "draw") =>
                 (resp' = 500 /\ uploadErrorMsg' = uploadErrorMsg /\ uploadErrorMsg' # MsgNone)]_vars

\* the file could not be created, two chunks were sent, the answer is 500
C30_Witness ==
  /\ pc = "draw" /\ resp = 500 /\ uploadErrorMsg = MsgOpenWrite
  /\ up.chunks = 2 /\ lastUploadBytes = 0
  /\ ~pendingDrawBMP /\ ~pendingStartGIF /\ file[up.target] = NoFile

\* C31: while the write handle of an upload is open, and anywhere between
\* onStart and onEnd/onAbort, no animation session is open, the bitmap decoder
\* is not running and the get-still route is not streaming.
C31_NoReadWhileWriting ==
  /\ uploadFile # "closed" => pc = "upload"
  /\ pc = "upload" =>
        /\ ~gifSess /\ ~gifPlaying
        /\ bmp = NoBmp /\ ~tftSel
        /\ resp = 0 /\ req.name = "upload"

\* an animation upload has stored a chunk after arriving during playback
C31_Witness ==
  /\ pc = "upload" /\ uploadFile = GIF_PATH /\ req.playing
  /\ up.chunks > 0 /\ file[GIF_PATH] # NoFile /\ file[GIF_PATH].len > 0

\* the row has no pixel on the display
OffDisplay ==
  \/ gd.y < 0 \/ gd.y >= tftHeight
  \/ gd.iWidth <= 0 \/ gd.iX >= tftWidth \/ gd.iX + gd.iWidth <= 0

\* C32: every display write of GIFDraw lies inside the display (0 <= y <
\* height, 0 <= x, length >= 1, x + length <= 320), every index into line[] is
\* below 320, and a row entirely outside the display produces no write.
C32_WritesInsideDisplay ==
  /\ \A k \in DOMAIN gd.writes :
        LET wr == gd.writes[k]
        IN  /\ 0 <= wr.y /\ wr.y < tftHeight
            /\ 0 <= wr.x /\ wr.len >= 1 /\ wr.x + wr.len <= tftWidth
            /\ wr.n = <<0, wr.len>>
  /\ gd.idx < 320
  /\ OffDisplay => gd.writes = <<>>

\* the indices of the row that fall on the display: from FirstShown up to, not
\* including, EndShown
FirstShown == IF gd.iX < 0 THEN 0 - gd.iX ELSE 0
EndShown ==
  IF gd.y < 0 \/ gd.y >= tftHeight THEN FirstShown
  ELSE IF gd.iWidth < tftWidth - gd.iX THEN gd.iWidth ELSE tftWidth - gd.iX

\* where the maximal runs of non-transparent pixels on the display begin, and
\* the last index of the run that begins at a
RunStarts ==
  {a \in FirstShown .. EndShown - 1 :
     ~Transparent(gd.row, a) /\ (a = FirstShown \/ Transparent(gd.row, a - 1))}
LastOfRun(a) ==
  CHOOSE b \in a .. EndShown - 1 :
    /\ \A k \in a .. b : ~Transparent(gd.row, k)
    /\ (b = EndShown - 1 \/ Transparent(gd.row, b + 1))

\* the writes issued so far are maximal opaque runs, left to right, each at
\* its place on the display; at the end none is missing
RunsWritten ==
  /\ \A k \in DOMAIN gd.writes :
        LET wr == gd.writes[k]
        IN  /\ wr.from \in RunStarts
            /\ wr.len = LastOfRun(wr.from) - wr.from + 1
            /\ wr.n = <<0, wr.len>>
            /\ wr.x = gd.iX + wr.from /\ wr.y = gd.y
            /\ k > 1 => gd.writes[k - 1].from < wr.from
  /\ gd.stage = "done" => Len(gd.writes) = Cardinality(RunStarts)

\* C33: for a row with a transparent index GIFDraw writes exactly the
\* non-transparent pixels of the clipped row, each once and at its x position,
\* one write per maximal opaque run, and the scan ends for every row.
C33_OpaqueRunsOnly ==
  /\ [](gd.hasT => RunsWritten)
  /\ (gd.hasT /\ gd.stage = "call") ~> (gd.stage = "done")

\* a row clipped at both edges whose two opaque runs have been written
C33_Witness ==
  /\ gd.stage = "done" /\ gd.hasT
  /\ gd.iX < 0 /\ gd.iX + gd.iWidth > tftWidth
  /\ Len(gd.writes) = 2 /\ gd.writes[1].from = FirstShown
  /\ gd.writes[2].from + gd.writes[2].len = EndShown

C36_PlaybackEnds ==
  /\ (gifPlaying /\ ~gifLoop) ~> [](~gifPlaying /\ ~gifSess)
  /\ [][(gifPlaying /\ gifLoop) => gifPlaying']_vars

\* the product a * b, and the sum a + b, do not fit 32 bits
MulWraps(a, b) ==
  \/ a[1] # 0 /\ b[1] # 0
  \/ Carry16(a[1], b[2]) + Carry16(a[2], b[1])
       + (Mul16(a[1], b[2]) + Mul16(a[2], b[1]) + Carry16(a[2], b[2])) \div W16 # 0
AddWraps(a, b) == a[1] + b[1] + (a[2] + b[2]) \div W16 >= W16

\* min(|n|, limit) for an int32_t n
Least(n, limit) == IF n < -limit \/ n > limit THEN limit ELSE Abs(n)

\* the header passed validation and the geometry of lines 258-264 is computed
GeometryDone ==
  dr.hdrRead = 54 /\ HeaderResult(bmpFile) = BMP_OK /\ dr.stage \in {"rows", "done"}

StrideWraps ==
  \/ MulWraps(ToU32(bmpFile.w), <<0, dr.bpp>>)
  \/ AddWraps(Mul32(ToU32(bmpFile.w), <<0, dr.bpp>>), <<0, 3>>)

OffsetWraps ==
  \/ MulWraps(dr.srcRow32, dr.rowSize32)
  \/ AddWraps(ToU32(bmpFile.off), Mul32(dr.srcRow32, dr.rowSize32))

\* C37: for every header that passes validation, the extreme 32-bit values
\* included, the row count is min(|height|, display height) and at least 1,
\* the column count is min(width, display width) and at least 1, the stride
\* and the source offsets are computed without 32-bit wraparound, and the
\* decoder never returns BMP_OK having pushed no row.
C37_ExtremeHeaders ==
  GeometryDone =>
    /\ dr.drawH = Least(bmpFile.h, tftHeight) /\ dr.drawH >= 1
    /\ dr.drawW = Least(bmpFile.w, tftWidth) /\ dr.drawW >= 1
    /\ ~StrideWraps
    /\ ~OffsetWraps
    /\ (dr.stage = "done" /\ dr.result = BMP_OK) => dr.pushed >= 1

\* C38: each storage handle GIFOpenFile creates for an animation session is
\* closed and freed exactly once: no sequence of operations hands GIFCloseFile
\* a handle it has already freed, and no handle stays open once its session
\* has ended (the decoder holds one handle, so at most one is open).
C38_HandleClosedOnce ==
  /\ ~heapBad
  /\ gifHandle \in {"null", "open", "freed"}
  /\ gifHandle = "open" => gifSess

====
